---- MODULE Spec2Model ----
(***************************************************************************)
(* State-machine model of the configuration core of the property-          *)
(* inspection backend: the inspection-criteria service, the dashboard-     *)
(* template service and the property-access workflow.  Every service       *)
(* method is one action; the rows of the relational store are the          *)
(* variables.  Each handler is an operator that maps the stored value and  *)
(* the request to an outcome [result, value]; the action stores the value  *)
(* when the result is "ok" and records the call in `last`.                 *)
(***************************************************************************)
EXTENDS Integers, Sequences, FiniteSets, TLC

VARIABLES
  criteria,        \* InspectionCriteria rows: id -> row (domain = existing ids)
  templates,       \* DashboardTemplate rows: id -> row
  templateWrites,  \* successful template writes so far (exploration bound)
  properties,      \* Property rows: id -> [propertyManagerId, activeTemplateId]
  accessRequests,  \* PropertyAccessRequest rows: <<propertyId, requesterId>> -> row
  propertyAccess,  \* PropertyAccess rows: <<propertyId, userId>> -> row
  auditLog,        \* AuditLog rows, in insertion order
  now,             \* the wall clock read by Date.now() / new Date()
  last,            \* the last service call: [op, args, result]
  calls            \* calls in flight: what each has read and not yet written

vars == <<criteria, templates, templateWrites, properties, accessRequests,
          propertyAccess, auditLog, now, last, calls>>

critVars == <<criteria>>
tmplVars == <<templates, templateWrites>>
propVars == <<properties>>
accVars  == <<accessRequests, propertyAccess, auditLog>>

(***************************************************************************)
(* Bounds of the model.                                                    *)
(***************************************************************************)
MaxTime   == 1   \* the clock runs over 0..MaxTime
MaxCustom == 2   \* custom (isSystem=false) entries one criteria may hold

(***************************************************************************)
(* Optional values: undefined / null is <<>>, a present value v is <<v>>.  *)
(***************************************************************************)
None == <<>>
Some(v) == <<v>>
IsSome(o) == o # <<>>
\* JavaScript's `o ?? d`
OrElse(o, d) == IF o = <<>> THEN d ELSE o[1]

\* Outcomes of a handler
Ok(v) == [result |-> "ok", value |-> v]
Fail(kind, v) == [result |-> kind, value |-> v]

\* The elements of a sequence, and a sequence with index i replaced
Range(s) == {s[i] : i \in DOMAIN s}
ReplaceAt(s, i, v) == [s EXCEPT ![i] = v]

\* Array.prototype.findIndex on the key: 0 stands for -1 (not found)
FindIndexByKey(fields, key) ==
  IF \E i \in DOMAIN fields : fields[i].key = key
  THEN CHOOSE i \in DOMAIN fields :
         /\ fields[i].key = key
         /\ \A j \in DOMAIN fields : fields[j].key = key => i <= j
  ELSE 0

\* fields.filter(f => f.key !== key).map((f, i) => ({...f, order: i + 1}))
FilterKeyAndRenumber(fields, key) ==
  LET kept == SelectSeq(fields, LAMBDA f : f.key # key)
  IN  [i \in DOMAIN kept |-> [kept[i] EXCEPT !.order = i]]

\* categories.reduce((sum, c) => sum + c.maxPoints, 0)
RECURSIVE SumPoints(_)
SumPoints(cats) ==
  IF cats = <<>> THEN 0 ELSE cats[1].maxPoints + SumPoints(Tail(cats))

\* number of isSystem=false entries of an array
CustomCount(fields) == Cardinality({i \in DOMAIN fields : ~fields[i].isSystem})

CustomTotal(c) ==
  CustomCount(c.headerFields) + CustomCount(c.scoringCategories)
    + CustomCount(c.mediaFields)

(***************************************************************************)
(* Inspection criteria: inspection-criteria.service.ts                     *)
(***************************************************************************)
CriteriaIds == {"c1"}

\* `custom_${Date.now()}` and its siblings
HeaderKey(t)  == "custom_" \o ToString(t)
ScoringKey(t) == "custom_cat_" \o ToString(t)
MediaKey(t)   == "custom_media_" \o ToString(t)

\* _assertUniqueKeys: TRUE when it throws
HasDuplicateKey(keys) ==
  \E i, j \in DOMAIN keys : i < j /\ keys[i] = keys[j]

Keys(fields) == [i \in DOMAIN fields |-> fields[i].key]

\* _assertHealthTiers: TRUE when it throws
HealthTiersInverted(config) ==
  \E name \in {"good", "fair", "poor"} :
    \/ config[name].minScore > config[name].maxScore
    \/ config[name].remainingLifeMinYears > config[name].remainingLifeMaxYears

\* create: the three arrays as stored (isSystem=true, order from position)
CreateHeaderFields(dto) ==
  [i \in DOMAIN dto.headerFields |->
    LET f == dto.headerFields[i] IN
    [key |-> f.key, label |-> f.label,
     type |-> IF f.isDropdown THEN "dropdown" ELSE "text",
     placeholder |-> OrElse(f.placeholder, ""),
     required |-> f.required, isSystem |-> TRUE, order |-> i,
     options |-> IF f.isDropdown THEN f.options ELSE None]]

CreateScoringCategories(dto) ==
  [i \in DOMAIN dto.scoringCategories |->
    LET c == dto.scoringCategories[i] IN
    [key |-> c.key, label |-> c.label, maxPoints |-> c.maxPoints,
     isSystem |-> TRUE, order |-> i]]

CreateMediaFields(dto) ==
  [i \in DOMAIN dto.mediaFields |->
    LET m == dto.mediaFields[i] IN
    [key |-> m.key, label |-> m.label,
     placeholder |-> OrElse(m.placeholder, ""),
     type |-> IF m.isMediaFile THEN "file"
              ELSE IF m.isEmbedded THEN "embed" ELSE "document",
     isSystem |-> TRUE, order |-> i,
     accept |-> IF m.isMediaFile THEN m.accept ELSE None]]

CreateCriteriaFn(dto) ==
  IF \/ HasDuplicateKey(Keys(dto.headerFields))
     \/ HasDuplicateKey(Keys(dto.scoringCategories))
     \/ HasDuplicateKey(Keys(dto.mediaFields))
  THEN Fail("BadRequest", None)
  ELSE IF SumPoints(dto.scoringCategories) > 100
  THEN Fail("BadRequest", None)
  ELSE IF HealthTiersInverted(dto.healthThresholdConfig)
  THEN Fail("BadRequest", None)
  ELSE Ok([headerFields |-> CreateHeaderFields(dto),
           scoringCategories |-> CreateScoringCategories(dto),
           mediaFields |-> CreateMediaFields(dto),
           healthThresholdConfig |-> dto.healthThresholdConfig])

\* JavaScript truthiness of an optional string: undefined and '' are falsy
Truthy(o) == o # <<>> /\ o[1] # ""

\* ---- header fields ----
addHeaderFieldFn(fields, dto, t) ==
  Ok(Append(fields,
       [key |-> HeaderKey(t), label |-> dto.label,
        type |-> IF dto.isDropdown THEN "dropdown" ELSE "text",
        placeholder |-> OrElse(dto.placeholder, ""),
        required |-> dto.required, isSystem |-> FALSE,
        order |-> Len(fields) + 1,
        options |-> IF dto.isDropdown THEN dto.options ELSE None]))

updateHeaderFieldFn(fields, fieldKey, dto) ==
  LET fieldIndex == FindIndexByKey(fields, fieldKey) IN
  IF fieldIndex = 0 THEN Fail("NotFound", fields)
  ELSE LET field == fields[fieldIndex] IN
    IF field.isSystem /\ (Truthy(dto.label) \/ Truthy(dto.placeholder)
                          \/ IsSome(dto.required))
    THEN Fail("Forbidden", fields)
    ELSE IF field.isSystem /\ field.type # "dropdown"
    THEN Fail("Forbidden", fields)
    ELSE Ok(ReplaceAt(fields, fieldIndex,
              [field EXCEPT
                 !.label = OrElse(dto.label, field.label),
                 !.placeholder = OrElse(dto.placeholder, field.placeholder),
                 !.required = OrElse(dto.required, field.required),
                 !.options = IF IsSome(dto.options) THEN dto.options
                             ELSE field.options]))

removeHeaderFieldFn(fields, fieldKey) ==
  LET fieldIndex == FindIndexByKey(fields, fieldKey) IN
  IF fieldIndex = 0 THEN Fail("NotFound", fields)
  ELSE IF fields[fieldIndex].isSystem THEN Fail("Forbidden", fields)
  ELSE Ok(FilterKeyAndRenumber(fields, fieldKey))

\* ---- scoring categories ----
addScoringCategoryFn(categories, dto, t) ==
  LET currentTotal == SumPoints(categories) IN
  IF currentTotal + dto.maxPoints > 100 THEN Fail("BadRequest", categories)
  ELSE Ok(Append(categories,
            [key |-> ScoringKey(t), label |-> dto.label,
             maxPoints |-> dto.maxPoints, isSystem |-> FALSE,
             order |-> Len(categories) + 1]))

\* updateScoringCategory without the guard on system categories
updateScoringCategoryFn_NoSystemGuard(categories, categoryKey, dto) ==
  LET catIndex == FindIndexByKey(categories, categoryKey) IN
  IF catIndex = 0 THEN Fail("NotFound", categories)
  ELSE LET category == categories[catIndex]
           totalWithoutThis ==
             SumPoints(SelectSeq(categories, LAMBDA c : c.key # categoryKey))
       IN
    IF IsSome(dto.maxPoints) /\ totalWithoutThis + dto.maxPoints[1] > 100
    THEN Fail("BadRequest", categories)
    ELSE Ok(ReplaceAt(categories, catIndex,
              [category EXCEPT
                 !.label = OrElse(dto.label, category.label),
                 !.maxPoints = OrElse(dto.maxPoints, category.maxPoints)]))

updateScoringCategoryFn(categories, categoryKey, dto) ==
  LET catIndex == FindIndexByKey(categories, categoryKey) IN
  IF catIndex = 0 THEN Fail("NotFound", categories)
  ELSE LET category == categories[catIndex]
           totalWithoutThis ==
             SumPoints(SelectSeq(categories, LAMBDA c : c.key # categoryKey))
       IN
    IF category.isSystem /\ IsSome(dto.maxPoints)
    THEN Fail("Forbidden", categories)
    ELSE IF IsSome(dto.maxPoints) /\ totalWithoutThis + dto.maxPoints[1] > 100
    THEN Fail("BadRequest", categories)
    ELSE Ok(ReplaceAt(categories, catIndex,
              [category EXCEPT
                 !.label = OrElse(dto.label, category.label),
                 !.maxPoints = OrElse(dto.maxPoints, category.maxPoints)]))

\* removeScoringCategory without the guard on system categories
removeScoringCategoryFn_NoSystemGuard(categories, categoryKey) ==
  LET catIndex == FindIndexByKey(categories, categoryKey) IN
  IF catIndex = 0 THEN Fail("NotFound", categories)
  ELSE Ok(FilterKeyAndRenumber(categories, categoryKey))

removeScoringCategoryFn(categories, categoryKey) ==
  LET catIndex == FindIndexByKey(categories, categoryKey) IN
  IF catIndex = 0 THEN Fail("NotFound", categories)
  ELSE IF categories[catIndex].isSystem THEN Fail("Forbidden", categories)
  ELSE Ok(FilterKeyAndRenumber(categories, categoryKey))

\* ---- media fields ----
addMediaFieldFn(fields, dto, t) ==
  LET type == IF dto.isMediaFile THEN "file"
              ELSE IF dto.isEmbedded THEN "embed" ELSE "document" IN
  IF type = "document" THEN Fail("BadRequest", fields)
  ELSE Ok(Append(fields,
            [key |-> MediaKey(t), label |-> dto.label,
             placeholder |-> OrElse(dto.placeholder, ""),
             type |-> type, isSystem |-> FALSE,
             order |-> Len(fields) + 1,
             accept |-> IF dto.isMediaFile THEN dto.accept ELSE None]))

updateMediaFieldFn(fields, fieldKey, dto) ==
  LET fieldIndex == FindIndexByKey(fields, fieldKey) IN
  IF fieldIndex = 0 THEN Fail("NotFound", fields)
  ELSE LET field == fields[fieldIndex] IN
    Ok(ReplaceAt(fields, fieldIndex,
         [field EXCEPT
            !.label = OrElse(dto.label, field.label),
            !.placeholder = OrElse(dto.placeholder, field.placeholder),
            !.accept = IF field.type = "file" /\ IsSome(dto.accept)
                       THEN dto.accept ELSE field.accept]))

removeMediaFieldFn(fields, fieldKey) ==
  LET fieldIndex == FindIndexByKey(fields, fieldKey) IN
  IF fieldIndex = 0 THEN Fail("NotFound", fields)
  ELSE IF fields[fieldIndex].isSystem THEN Fail("Forbidden", fields)
  ELSE Ok(FilterKeyAndRenumber(fields, fieldKey))

\* ---- health threshold config ----
\* a check of the tiers as sent, for the fields that were sent
updateHealthThresholdConfigFn_ChecksSent(current, dto) ==
  LET MergedTier(name) ==
        IF IsSome(dto[name])
        THEN [f \in DOMAIN current[name] |->
                OrElse(dto[name][1][f], current[name][f])]
        ELSE current[name]
      merged == [name \in {"good", "fair", "poor"} |-> MergedTier(name)]
      sentInverted ==
        \E name \in {"good", "fair", "poor"} :
          /\ IsSome(dto[name])
          /\ \/ /\ IsSome(dto[name][1].minScore)
                /\ IsSome(dto[name][1].maxScore)
                /\ dto[name][1].minScore[1] > dto[name][1].maxScore[1]
             \/ /\ IsSome(dto[name][1].remainingLifeMinYears)
                /\ IsSome(dto[name][1].remainingLifeMaxYears)
                /\ dto[name][1].remainingLifeMinYears[1]
                     > dto[name][1].remainingLifeMaxYears[1]
  IN  IF sentInverted THEN Fail("BadRequest", current) ELSE Ok(merged)

\* updateHealthThresholdConfig: { ...current.tier, ...dto.tier } for each
\* tier, then _assertHealthTiers on the merged config
updateHealthThresholdConfigFn(current, dto) ==
  LET MergedTier(name) ==
        IF IsSome(dto[name])
        THEN [f \in DOMAIN current[name] |->
                OrElse(dto[name][1][f], current[name][f])]
        ELSE current[name]
      merged == [name \in {"good", "fair", "poor"} |-> MergedTier(name)]
  IN  IF HealthTiersInverted(merged) THEN Fail("BadRequest", current)
      ELSE Ok(merged)

(***************************************************************************)
(* Requests of the criteria service drawn by the model.  Every record is a *)
(* body the DTO validators accept.                                         *)
(***************************************************************************)
Tier(lo, hi, lifeLo, lifeHi) ==
  [minScore |-> lo, maxScore |-> hi,
   remainingLifeMinYears |-> lifeLo, remainingLifeMaxYears |-> lifeHi]

HealthStandard ==
  [good |-> Tier(80, 100, 10, 20), fair |-> Tier(50, 79, 5, 9),
   poor |-> Tier(0, 49, 0, 4)]
HealthInverted == [HealthStandard EXCEPT !.fair = Tier(79, 50, 5, 9)]

InitialHeader(key, isDropdown) ==
  [key |-> key, label |-> "Label", placeholder |-> None, required |-> FALSE,
   isDropdown |-> isDropdown,
   options |-> IF isDropdown THEN Some(<<"A">>) ELSE None]
InitialCategory(key, maxPoints) ==
  [key |-> key, label |-> "Label", maxPoints |-> maxPoints]
InitialMedia(key, isMediaFile, isEmbedded) ==
  [key |-> key, label |-> "Label", placeholder |-> None,
   isMediaFile |-> isMediaFile, isEmbedded |-> isEmbedded, accept |-> None]

\* the shape of the documented example: several system entries, 90 points
DtoStandard ==
  [headerFields |-> <<InitialHeader("inspectionTitle", FALSE),
                      InitialHeader("propertyType", TRUE)>>,
   scoringCategories |-> <<InitialCategory("surfaceCondition", 50),
                           InitialCategory("seamsFlashings", 40)>>,
   mediaFields |-> <<InitialMedia("mediaFiles", TRUE, FALSE),
                     InitialMedia("documents", FALSE, FALSE)>>,
   healthThresholdConfig |-> HealthStandard]
\* caller-chosen keys of the generated form custom_<n>
DtoCustomKeys ==
  [headerFields |-> <<InitialHeader(HeaderKey(1), TRUE)>>,
   scoringCategories |-> <<InitialCategory(ScoringKey(1), 40)>>,
   mediaFields |-> <<InitialMedia(MediaKey(1), FALSE, TRUE)>>,
   healthThresholdConfig |-> HealthStandard]
DtoDuplicateKey ==
  [DtoStandard EXCEPT !.scoringCategories =
     <<InitialCategory("surfaceCondition", 50),
       InitialCategory("surfaceCondition", 40)>>]
DtoOverBudget ==
  [DtoStandard EXCEPT !.scoringCategories =
     <<InitialCategory("surfaceCondition", 50),
       InitialCategory("seamsFlashings", 60)>>]
DtoInvertedTier == [DtoStandard EXCEPT !.healthThresholdConfig = HealthInverted]

CreateCriteriaDtos ==
  {DtoStandard, DtoCustomKeys, DtoDuplicateKey, DtoOverBudget, DtoInvertedTier}

AddHeaderFieldDtos ==
  {[label |-> "Custom", placeholder |-> None, required |-> FALSE,
    isDropdown |-> FALSE, options |-> None]}
UpdateHeaderFieldDtos ==
  {[label |-> None, placeholder |-> None, required |-> None,
    options |-> Some(<<"B">>)],
   [label |-> Some("Renamed"), placeholder |-> None, required |-> None,
    options |-> None]}

AddScoringCategoryDtos ==
  {[label |-> "Custom", maxPoints |-> p] : p \in {10, 30}}
UpdateScoringCategoryDtos ==
  {[label |-> Some("Renamed"), maxPoints |-> Some(10)],
   [label |-> None, maxPoints |-> Some(60)]}

AddMediaFieldDtos ==
  {[label |-> "Custom", placeholder |-> None, isMediaFile |-> f,
    isEmbedded |-> ~f, accept |-> None] : f \in BOOLEAN}
    \cup {[label |-> "Custom", placeholder |-> None, isMediaFile |-> FALSE,
           isEmbedded |-> FALSE, accept |-> None]}
UpdateMediaFieldDtos ==
  {[label |-> None, placeholder |-> None, accept |-> Some(<<"image/*">>)]}

\* the keys a request may name: those stored, and one that is not
KeyArgs(fields) == Range(Keys(fields)) \cup {"missing"}

(***************************************************************************)
(* Actions of the criteria service                                         *)
(***************************************************************************)
Call(op, id, args, result) ==
  [op |-> op, result |-> result]

CreateCriteria(id, dto) ==
  LET r == CreateCriteriaFn(dto) IN
  /\ id \notin DOMAIN criteria
  /\ criteria' = IF r.result = "ok"
                 THEN [i \in DOMAIN criteria \cup {id} |->
                         IF i = id THEN r.value ELSE criteria[i]]
                 ELSE criteria
  /\ last' = Call("createCriteria", id, dto, r.result)
  /\ UNCHANGED <<tmplVars, propVars, accVars, now, calls>>

\* remove: blocked while a template references the criteria
RemoveCriteria(id) ==
  LET r == IF id \notin DOMAIN criteria THEN "NotFound"
           ELSE IF \E t \in DOMAIN templates : templates[t].criteriaId = id
           THEN "BadRequest"
           ELSE "ok" IN
  /\ criteria' = IF r = "ok"
                 THEN [i \in DOMAIN criteria \ {id} |-> criteria[i]]
                 ELSE criteria
  /\ last' = Call("removeCriteria", id, None, r)
  /\ UNCHANGED <<tmplVars, propVars, accVars, now, calls>>

\* a method that reads the criteria, rewrites one of its arrays and saves it
ArrayCall(op, id, args, field, r) ==
  /\ criteria' = IF r.result = "ok"
                 THEN [criteria EXCEPT ![id][field] = r.value]
                 ELSE criteria
  /\ last' = Call(op, id, args, r.result)
  /\ UNCHANGED <<tmplVars, propVars, accVars, now, calls>>

NotFound == Fail("NotFound", None)

AddHeaderField(id, dto) ==
  /\ id \in DOMAIN criteria => CustomTotal(criteria[id]) < MaxCustom
  /\ ArrayCall("addHeaderField", id, dto, "headerFields",
       IF id \notin DOMAIN criteria THEN NotFound
       ELSE addHeaderFieldFn(criteria[id].headerFields, dto, now))

UpdateHeaderField(id, fieldKey, dto) ==
  ArrayCall("updateHeaderField", id, [key |-> fieldKey, dto |-> dto],
    "headerFields",
    IF id \notin DOMAIN criteria THEN NotFound
    ELSE updateHeaderFieldFn(criteria[id].headerFields, fieldKey, dto))

RemoveHeaderField(id, fieldKey) ==
  ArrayCall("removeHeaderField", id, [key |-> fieldKey], "headerFields",
    IF id \notin DOMAIN criteria THEN NotFound
    ELSE removeHeaderFieldFn(criteria[id].headerFields, fieldKey))

AddScoringCategory(id, dto) ==
  /\ id \in DOMAIN criteria => CustomTotal(criteria[id]) < MaxCustom
  /\ ArrayCall("addScoringCategory", id, dto, "scoringCategories",
       IF id \notin DOMAIN criteria THEN NotFound
       ELSE addScoringCategoryFn(criteria[id].scoringCategories, dto, now))

UpdateScoringCategory(id, categoryKey, dto) ==
  ArrayCall("updateScoringCategory", id, [key |-> categoryKey, dto |-> dto],
    "scoringCategories",
    IF id \notin DOMAIN criteria THEN NotFound
    ELSE updateScoringCategoryFn(criteria[id].scoringCategories,
                                 categoryKey, dto))

RemoveScoringCategory(id, categoryKey) ==
  ArrayCall("removeScoringCategory", id, [key |-> categoryKey],
    "scoringCategories",
    IF id \notin DOMAIN criteria THEN NotFound
    ELSE removeScoringCategoryFn(criteria[id].scoringCategories, categoryKey))

AddMediaField(id, dto) ==
  /\ id \in DOMAIN criteria => CustomTotal(criteria[id]) < MaxCustom
  /\ ArrayCall("addMediaField", id, dto, "mediaFields",
       IF id \notin DOMAIN criteria THEN NotFound
       ELSE addMediaFieldFn(criteria[id].mediaFields, dto, now))

UpdateMediaField(id, fieldKey, dto) ==
  ArrayCall("updateMediaField", id, [key |-> fieldKey, dto |-> dto],
    "mediaFields",
    IF id \notin DOMAIN criteria THEN NotFound
    ELSE updateMediaFieldFn(criteria[id].mediaFields, fieldKey, dto))

RemoveMediaField(id, fieldKey) ==
  ArrayCall("removeMediaField", id, [key |-> fieldKey], "mediaFields",
    IF id \notin DOMAIN criteria THEN NotFound
    ELSE removeMediaFieldFn(criteria[id].mediaFields, fieldKey))

UpdateHealthThresholdConfig(id, dto) ==
  ArrayCall("updateHealthThresholdConfig", id, dto, "healthThresholdConfig",
    IF id \notin DOMAIN criteria THEN NotFound
    ELSE updateHealthThresholdConfigFn(criteria[id].healthThresholdConfig,
                                       dto))

\* time passes between two calls (or does not: two calls may read one value)
Tick ==
  /\ now < MaxTime
  /\ now' = now + 1
  /\ UNCHANGED <<critVars, tmplVars, propVars, accVars, last, calls>>

StoredKeys(id, field) ==
  IF id \in DOMAIN criteria THEN KeyArgs(criteria[id][field]) ELSE {"missing"}

Empty == [x \in {} |-> x]

\* two requests served at the same time; none is in flight at the start
CallIds == {"a", "b"}
NoCalls == [c \in CallIds |-> [pc |-> "idle"]]

Init ==
  /\ criteria = Empty
  /\ templates = Empty
  /\ templateWrites = 0
  /\ properties = Empty
  /\ accessRequests = Empty
  /\ propertyAccess = Empty
  /\ auditLog = <<>>
  /\ now = 0
  /\ last = Call("init", None, None, "ok")
  /\ calls = NoCalls

NextCriteria ==
  \/ Tick
  \/ \E id \in CriteriaIds :
       \/ \E dto \in CreateCriteriaDtos : CreateCriteria(id, dto)
       \/ RemoveCriteria(id)
       \/ \E dto \in AddHeaderFieldDtos : AddHeaderField(id, dto)
       \/ \E k \in StoredKeys(id, "headerFields"), dto \in UpdateHeaderFieldDtos :
            UpdateHeaderField(id, k, dto)
       \/ \E k \in StoredKeys(id, "headerFields") : RemoveHeaderField(id, k)
       \/ \E dto \in AddScoringCategoryDtos : AddScoringCategory(id, dto)
       \/ \E k \in StoredKeys(id, "scoringCategories"),
             dto \in UpdateScoringCategoryDtos :
            UpdateScoringCategory(id, k, dto)
       \/ \E k \in StoredKeys(id, "scoringCategories") :
            RemoveScoringCategory(id, k)
       \/ \E dto \in AddMediaFieldDtos : AddMediaField(id, dto)
       \/ \E k \in StoredKeys(id, "mediaFields"), dto \in UpdateMediaFieldDtos :
            UpdateMediaField(id, k, dto)
       \/ \E k \in StoredKeys(id, "mediaFields") : RemoveMediaField(id, k)

SpecCriteria == Init /\ [][NextCriteria]_vars

(***************************************************************************)
(* Properties of the criteria service                                      *)
(***************************************************************************)
ArrayNames == {"headerFields", "scoringCategories", "mediaFields"}
RemoveOps ==
  {"removeHeaderField", "removeScoringCategory", "removeMediaField"}

\* the criteria that exist before and after a step
Surviving == DOMAIN criteria \cap DOMAIN criteria'

\* C1: for every criteria the sum of scoringCategories[].maxPoints is at
\* most 100 after any sequence of create, add, update and remove calls.
C1_PointBudget ==
  \A id \in DOMAIN criteria : SumPoints(criteria[id].scoringCategories) <= 100

\* the isSystem=true entries of an array, in array order, by key and order
SystemEntries(fields) ==
  LET sys == SelectSeq(fields, LAMBDA f : f.isSystem)
  IN  [i \in DOMAIN sys |-> [key |-> sys[i].key, order |-> sys[i].order]]

removeFn(field, fields, key) ==
  CASE field = "headerFields" -> removeHeaderFieldFn(fields, key)
    [] field = "scoringCategories" -> removeScoringCategoryFn(fields, key)
    [] field = "mediaFields" -> removeMediaFieldFn(fields, key)

\* a remove that names the key of any isSystem=true entry is refused
SystemRemoveRefused ==
  \A id \in DOMAIN criteria : \A field \in ArrayNames :
    LET fields == criteria[id][field] IN
    \A i \in DOMAIN fields :
      fields[i].isSystem =>
        removeFn(field, fields, fields[i].key) = Fail("Forbidden", fields)

\* C6: removeHeaderField, removeScoringCategory and removeMediaField aimed
\* at an isSystem=true entry fail with Forbidden and store nothing, and no
\* step of any operation changes the system entries of an existing criteria.
C6_SystemEntriesStay ==
  /\ []SystemRemoveRefused
  /\ [][/\ (last'.op \in RemoveOps /\ last'.result = "Forbidden")
             => criteria' = criteria
        /\ \A id \in Surviving : \A field \in ArrayNames :
             SystemEntries(criteria'[id][field])
               = SystemEntries(criteria[id][field])]_vars

\* a refused remove of a system entry, with a custom entry stored beside it
C6_Witness ==
  /\ last.op = "removeScoringCategory" /\ last.result = "Forbidden"
  /\ \E id \in DOMAIN criteria :
       /\ \E i \in DOMAIN criteria[id].scoringCategories :
            ~criteria[id].scoringCategories[i].isSystem
       /\ \E i \in DOMAIN criteria[id].scoringCategories :
            criteria[id].scoringCategories[i].isSystem

\* what C7 holds fixed of an entry: key and isSystem, and for a system
\* entry its type (header, media) or maxPoints (scoring)
Structure(field, f) ==
  [key |-> f.key, isSystem |-> f.isSystem,
   fixed |-> IF ~f.isSystem THEN "-"
             ELSE IF field = "scoringCategories" THEN ToString(f.maxPoints)
             ELSE f.type]
Structures(field, fields) ==
  [i \in DOMAIN fields |-> Structure(field, fields[i])]

\* a is b with some elements left out
RECURSIVE IsSubsequence(_, _)
IsSubsequence(a, b) ==
  IF a = <<>> THEN TRUE
  ELSE IF b = <<>> THEN FALSE
  ELSE IF a[1] = b[1] THEN IsSubsequence(Tail(a), Tail(b))
  ELSE IsSubsequence(a, Tail(b))

\* C7: under any update*, add* or remove* every entry that stays in its
\* array keeps its key and its isSystem flag, and an isSystem=true entry
\* keeps its type (header and media fields) and its maxPoints (scoring).
C7_StructureImmutable ==
  [][\A id \in Surviving : \A field \in ArrayNames :
       LET old == Structures(field, criteria[id][field])
           new == Structures(field, criteria'[id][field])
       IN  \/ criteria'[id][field] = criteria[id][field]
           \/ IsSubsequence(new, old)
           \/ /\ Len(new) = Len(old) + 1
              /\ SubSeq(new, 1, Len(old)) = old]_vars

\* updates went through on a system dropdown and on a custom category
C7_Witness ==
  /\ last.op \in {"updateHeaderField", "updateScoringCategory"}
  /\ last.result = "ok"
  /\ \E id \in DOMAIN criteria :
       /\ \E i \in DOMAIN criteria[id].headerFields :
            LET f == criteria[id].headerFields[i] IN
            f.isSystem /\ f.type = "dropdown" /\ f.options = Some(<<"B">>)
       /\ \E i \in DOMAIN criteria[id].scoringCategories :
            LET c == criteria[id].scoringCategories[i] IN
            ~c.isSystem /\ c.maxPoints = 60

\* C8: the keys within headerFields are pairwise distinct, and likewise
\* within scoringCategories and within mediaFields, in every state.
C8_UniqueKeys ==
  \A id \in DOMAIN criteria : \A field \in ArrayNames :
    ~HasDuplicateKey(Keys(criteria[id][field]))

OrdersByPosition(fields) == \A i \in DOMAIN fields : fields[i].order = i

\* the entries of an array without their order values
Unordered(fields) == [i \in DOMAIN fields |-> [fields[i] EXCEPT !.order = 0]]

\* C9: the entry at position i has order i in every array; an add appends
\* one entry with order N+1 and isSystem=false; a successful remove leaves
\* N-1 entries, the remaining ones in their previous sequence.
C9_ContiguousOrder ==
  /\ [](\A id \in DOMAIN criteria : \A field \in ArrayNames :
          OrdersByPosition(criteria[id][field]))
  /\ [][\A id \in Surviving : \A field \in ArrayNames :
          LET old == criteria[id][field]
              new == criteria'[id][field]
          IN  /\ Len(new) > Len(old) =>
                   /\ new = Append(old, new[Len(new)])
                   /\ new[Len(new)].order = Len(old) + 1
                   /\ ~new[Len(new)].isSystem
              /\ Len(new) < Len(old) =>
                   /\ last'.op \in RemoveOps
                   /\ Len(new) = Len(old) - 1
                   /\ IsSubsequence(Unordered(new), Unordered(old))]_vars

\* requests to change a stored entry: every field sent or left out, the
\* placeholder also sent as the empty string
HeaderChanges ==
  {[label |-> l, placeholder |-> p, required |-> r, options |-> o] :
     l \in {None, Some("Renamed")}, p \in {None, Some(""), Some("Hint")},
     r \in {None, Some(TRUE)}, o \in {None, Some(<<"B">>)}}
CategoryChanges ==
  {[label |-> l, maxPoints |-> m] :
     l \in {None, Some("Renamed")}, m \in {None, Some(10)}}
MediaChanges ==
  {[label |-> l, placeholder |-> p, accept |-> a] :
     l \in {None, Some("Renamed")}, p \in {None, Some(""), Some("Hint")},
     a \in {None, Some(<<"image/*">>)}}

\* the request names something other than the options list
AsksMore(dto) ==
  \E f \in DOMAIN dto \ {"options"} : dto[f] # None

\* the answer on a system entry: Forbidden with the array as it was when the
\* request asks for more than options; otherwise, when it succeeds, the
\* entry is a dropdown header field and only its options differ
SystemAnswer(fields, field, dto, r) ==
  IF AsksMore(dto)
  THEN r.result = "Forbidden" /\ r.value = fields
  ELSE r.result = "ok" =>
         /\ "options" \in DOMAIN field
         /\ field.type = "dropdown"
         /\ \A i \in DOMAIN fields :
              [r.value[i] EXCEPT !.options = fields[i].options] = fields[i]

\* C21: on an isSystem=true entry, updateHeaderField, updateScoringCategory
\* and updateMediaField answer Forbidden and leave the entry as it was for
\* every request that sends a label, placeholder, required (or maxPoints,
\* accept) value, an empty-string placeholder included; the only change
\* that succeeds is a new options list on a dropdown header field.
C21_SystemEntriesImmutable ==
  \A id \in DOMAIN criteria :
    LET c == criteria[id] IN
    /\ \A i \in DOMAIN c.headerFields, dto \in HeaderChanges :
         c.headerFields[i].isSystem =>
           SystemAnswer(c.headerFields, c.headerFields[i], dto,
             updateHeaderFieldFn(c.headerFields, c.headerFields[i].key, dto))
    /\ \A i \in DOMAIN c.scoringCategories, dto \in CategoryChanges :
         c.scoringCategories[i].isSystem =>
           SystemAnswer(c.scoringCategories, c.scoringCategories[i], dto,
             updateScoringCategoryFn(c.scoringCategories,
                                     c.scoringCategories[i].key, dto))
    /\ \A i \in DOMAIN c.mediaFields, dto \in MediaChanges :
         c.mediaFields[i].isSystem =>
           SystemAnswer(c.mediaFields, c.mediaFields[i], dto,
             updateMediaFieldFn(c.mediaFields, c.mediaFields[i].key, dto))

\* ---- the health threshold config on its own ----
\* UpdateHealthThresholdConfigDto: one tier sent, or the same fields sent for
\* all three; every field of a tier is optional
UpdateHealthThresholdConfigDtos ==
  LET tiers == {[minScore |-> a, maxScore |-> b,
                 remainingLifeMinYears |-> c, remainingLifeMaxYears |-> d] :
                  a \in {None, Some(0), Some(60)},
                  b \in {None, Some(40), Some(100)},
                  c \in {None, Some(6)}, d \in {None, Some(3)}}
      nothing == [good |-> None, fair |-> None, poor |-> None]
  IN  {[nothing EXCEPT ![name] = Some(t)] :
         name \in {"good", "fair", "poor"}, t \in tiers}
      \cup {[good |-> Some(t), fair |-> Some(t), poor |-> Some(t)] :
              t \in tiers}

NextHealth ==
  \/ \E dto \in {DtoStandard, DtoInvertedTier} : CreateCriteria("c1", dto)
  \/ \E dto \in UpdateHealthThresholdConfigDtos :
       UpdateHealthThresholdConfig("c1", dto)

SpecHealth == Init /\ [][NextHealth]_vars

TierNames == {"good", "fair", "poor"}

RangesOrdered(tier) ==
  /\ tier.minScore <= tier.maxScore
  /\ tier.remainingLifeMinYears <= tier.remainingLifeMaxYears

\* the stored tier with every field that was sent put in its place
SentOnto(tier, sent) ==
  [minScore |-> IF sent.minScore = None THEN tier.minScore
                ELSE sent.minScore[1],
   maxScore |-> IF sent.maxScore = None THEN tier.maxScore
                ELSE sent.maxScore[1],
   remainingLifeMinYears |->
     IF sent.remainingLifeMinYears = None THEN tier.remainingLifeMinYears
     ELSE sent.remainingLifeMinYears[1],
   remainingLifeMaxYears |->
     IF sent.remainingLifeMaxYears = None THEN tier.remainingLifeMaxYears
     ELSE sent.remainingLifeMaxYears[1]]

\* the handler's answer for every stored criteria and every request: the
\* stored tiers with the sent fields replaced, or BadRequest when that
\* inverts a range
MergeChecked ==
  \A id \in DOMAIN criteria, dto \in UpdateHealthThresholdConfigDtos :
    LET current == criteria[id].healthThresholdConfig
        wanted == [name \in TierNames |->
                     IF dto[name] = None THEN current[name]
                     ELSE SentOnto(current[name], dto[name][1])]
    IN  updateHealthThresholdConfigFn(current, dto) =
          IF \A name \in TierNames : RangesOrdered(wanted[name])
          THEN Ok(wanted) ELSE Fail("BadRequest", current)

\* C20: in every state, for every stored criteria and each tier good, fair
\* and poor of its healthThresholdConfig, minScore <= maxScore and
\* remainingLifeMinYears <= remainingLifeMaxYears; an
\* updateHealthThresholdConfig whose sent fields, put onto the stored tiers,
\* invert a range is answered BadRequest and the stored config stays as it
\* was; every other one is answered with the stored tiers with the sent
\* fields replaced, and a successful call changes nothing but the config.
C20_TierRangesOrdered ==
  /\ [](\A id \in DOMAIN criteria : \A name \in TierNames :
          RangesOrdered(criteria[id].healthThresholdConfig[name]))
  /\ []MergeChecked
  /\ [][last'.op = "updateHealthThresholdConfig" =>
          /\ DOMAIN criteria' = DOMAIN criteria
          /\ last'.result # "ok" => criteria' = criteria
          /\ \A id \in DOMAIN criteria :
               [criteria'[id] EXCEPT !.healthThresholdConfig =
                  criteria[id].healthThresholdConfig] = criteria[id]]_vars

\* an update that sent one bound only was refused because the bound, put
\* next to the stored other bound, inverts the range; an earlier update had
\* changed the stored config
C20_Witness ==
  /\ last.op = "updateHealthThresholdConfig"
  /\ last.result = "BadRequest"
  /\ "c1" \in DOMAIN criteria
  /\ criteria["c1"].healthThresholdConfig # HealthStandard
  /\ criteria["c1"].healthThresholdConfig.poor.maxScore = 40
  /\ \E dto \in UpdateHealthThresholdConfigDtos :
       /\ dto.poor # None /\ dto.good = None
       /\ dto.poor[1].maxScore = None
       /\ dto.poor[1].minScore = Some(60)
       /\ updateHealthThresholdConfigFn(criteria["c1"].healthThresholdConfig,
                                        dto).result = "BadRequest"

\* the tiers whose score range holds the score
TiersOf(config, score) ==
  {name \in TierNames :
     config[name].minScore <= score /\ score <= config[name].maxScore}

\* C26: in every stored healthThresholdConfig (after create and after
\* updateHealthThresholdConfig) the score ranges [minScore, maxScore] of
\* good, fair and poor do not overlap and together cover every score
\* 0..100: each score lies in the range of exactly one tier.
C26_TiersPartitionScores ==
  \A id \in DOMAIN criteria : \A score \in 0..100 :
    Cardinality(TiersOf(criteria[id].healthThresholdConfig, score)) = 1

(***************************************************************************)
(* Dashboard templates: templates.service.ts                               *)
(***************************************************************************)
TemplateIds == {"t1", "t2"}
MaxTemplateWrites == 4   \* successful template writes explored from Init

EmptyObject == [x \in {} |-> x]

FixedSection(order, type, label) ==
  [order |-> order, type |-> type, label |-> label, isDynamic |-> FALSE,
   config |-> EmptyObject, style |-> EmptyObject]

DEFAULT_FIXED_SECTIONS ==
  <<FixedSection(100, "priority_repair_planning", "Priority Repair Planning"),
    FixedSection(101, "documents", "Documents"),
    FixedSection(102, "additional_information", "Additional Information")>>

Types(sections) == {sections[i].type : i \in DOMAIN sections}

\* a merge that injects nothing
mergeWithFixedSections_NoInject(incoming) ==
  [i \in DOMAIN incoming |->
     [order |-> incoming[i].order, type |-> incoming[i].type,
      label |-> incoming[i].label, isDynamic |-> incoming[i].isDynamic,
      config |-> OrElse(incoming[i].config, EmptyObject),
      style |-> OrElse(incoming[i].style, EmptyObject)]]

\* mergeWithFixedSections: the incoming sections, then each fixed section
\* whose type the incoming list does not hold
mergeWithFixedSections(incoming) ==
  LET result == [i \in DOMAIN incoming |->
                   [order |-> incoming[i].order, type |-> incoming[i].type,
                    label |-> incoming[i].label,
                    isDynamic |-> incoming[i].isDynamic,
                    config |-> OrElse(incoming[i].config, EmptyObject),
                    style |-> OrElse(incoming[i].style, EmptyObject)]]
      existingTypes == Types(result)
  IN  result \o SelectSeq(DEFAULT_FIXED_SECTIONS,
                          LAMBDA fixed : fixed.type \notin existingTypes)

\* [...sections].sort((a, b) => a.order - b.order): a stable sort
RECURSIVE sortSections(_)
sortSections(sections) ==
  IF sections = <<>> THEN <<>>
  ELSE LET n == Len(sections)
           x == sections[n]
           sorted == sortSections(SubSeq(sections, 1, n - 1))
           p == Cardinality({i \in DOMAIN sorted : sorted[i].order <= x.order})
       IN  SubSeq(sorted, 1, p) \o <<x>> \o SubSeq(sorted, p + 1, Len(sorted))

Max(S) == CHOOSE m \in S : \A n \in S : n <= m

nextDynamicOrder(sections) ==
  LET dynamicOrders == {sections[i].order :
                          i \in {j \in DOMAIN sections : sections[j].isDynamic}}
  IN  IF dynamicOrders # {} THEN Max(dynamicOrders) + 1 ELSE 1

renumberSections(sections) ==
  LET dyn == SelectSeq(sections, LAMBDA s : s.isDynamic)
      dynamic == [i \in DOMAIN dyn |-> [dyn[i] EXCEPT !.order = i]]
      fixed == SelectSeq(sections, LAMBDA s : ~s.isDynamic)
  IN  sortSections(dynamic \o fixed)

\* style objects: a key maps to a leaf [leaf |-> v] or to a nested object
\* [obj |-> f]
Leaf(v) == [leaf |-> v]
Obj(f) == [obj |-> f]
IsObj(v) == "obj" \in DOMAIN v

\* a merge of the top-level keys only
deepMerge_Shallow(base, override) ==
  [key \in DOMAIN base \cup DOMAIN override |->
     IF key \in DOMAIN override THEN override[key] ELSE base[key]]

RECURSIVE deepMerge(_, _)
deepMerge(base, override) ==
  [key \in DOMAIN base \cup DOMAIN override |->
     IF key \notin DOMAIN override THEN base[key]
     ELSE IF /\ IsObj(override[key])
             /\ key \in DOMAIN base
             /\ IsObj(base[key])
     THEN Obj(deepMerge(base[key].obj, override[key].obj))
     ELSE override[key]]

\* sections.findIndex(s => s.order === order): 0 stands for -1
FindIndexByOrder(sections, order) ==
  IF \E i \in DOMAIN sections : sections[i].order = order
  THEN CHOOSE i \in DOMAIN sections :
         /\ sections[i].order = order
         /\ \A j \in DOMAIN sections : sections[j].order = order => i <= j
  ELSE 0

addTextFieldFn(sections, dto) ==
  Ok(sortSections(Append(sections,
       [order |-> nextDynamicOrder(sections), type |-> "text_field",
        label |-> dto.label, isDynamic |-> TRUE,
        config |-> [label |-> dto.label,
                    placeholder |-> OrElse(dto.placeholder, "")],
        style |-> OrElse(dto.style, EmptyObject)])))

addMediaSectionFn(sections, dto) ==
  Ok(sortSections(Append(sections,
       [order |-> nextDynamicOrder(sections), type |-> "media_field",
        label |-> dto.title, isDynamic |-> TRUE,
        config |-> IF IsSome(dto.embedUrl)
                   THEN [title |-> dto.title, mediaType |-> dto.mediaType,
                         embedUrl |-> dto.embedUrl[1]]
                   ELSE [title |-> dto.title, mediaType |-> dto.mediaType],
        style |-> OrElse(dto.style, EmptyObject)])))

removeDynamicSectionFn(sections, sectionOrder) ==
  LET idx == FindIndexByOrder(sections, sectionOrder) IN
  IF idx = 0 THEN Fail("NotFound", sections)
  ELSE IF ~sections[idx].isDynamic THEN Fail("BadRequest", sections)
  ELSE Ok(renumberSections(
            SelectSeq(sections, LAMBDA s : s.order # sectionOrder)))

updateSectionStyleFn(sections, dto) ==
  LET sectionIndex == FindIndexByOrder(sections, dto.order) IN
  IF sectionIndex = 0 THEN Fail("NotFound", sections)
  ELSE Ok(ReplaceAt(sections, sectionIndex,
            [sections[sectionIndex] EXCEPT
               !.style = deepMerge(sections[sectionIndex].style, dto.style)]))

\* new Map(sections.map(s => [s.type, s])).get(type): the last section of
\* that type; 0 when there is none
LastIndexOfType(sections, type) ==
  IF \E i \in DOMAIN sections : sections[i].type = type
  THEN Max({i \in DOMAIN sections : sections[i].type = type})
  ELSE 0

reorderSectionsFn(sections, orderedTypes) ==
  IF Len(orderedTypes) # Len(sections) THEN Fail("BadRequest", sections)
  ELSE IF \E i \in DOMAIN orderedTypes :
            LastIndexOfType(sections, orderedTypes[i]) = 0
  THEN Fail("NotFound", sections)
  ELSE Ok([index \in DOMAIN orderedTypes |->
             [sections[LastIndexOfType(sections, orderedTypes[index])]
                EXCEPT !.order = index]])

\* parseInt(order, 10) of the route parameter, given as its characters:
\* an optional sign, then the leading decimal digits; None stands for NaN
Digits == {"0", "1", "2", "3", "4", "5", "6", "7", "8", "9"}
DigitValue(c) ==
  CASE c = "0" -> 0 [] c = "1" -> 1 [] c = "2" -> 2 [] c = "3" -> 3
    [] c = "4" -> 4 [] c = "5" -> 5 [] c = "6" -> 6 [] c = "7" -> 7
    [] c = "8" -> 8 [] c = "9" -> 9

RECURSIVE DecimalValue(_)
DecimalValue(chars) ==
  IF chars = <<>> THEN 0
  ELSE 10 * DecimalValue(SubSeq(chars, 1, Len(chars) - 1))
         + DigitValue(chars[Len(chars)])

parseInt(chars) ==
  LET signed == chars # <<>> /\ chars[1] \in {"-", "+"}
      body == IF signed THEN Tail(chars) ELSE chars
      n == Cardinality({i \in DOMAIN body :
                          \A j \in 1..i : body[j] \in Digits})
      magnitude == DecimalValue(SubSeq(body, 1, n))
  IN  IF n = 0 THEN None
      ELSE Some(IF signed /\ chars[1] = "-" THEN 0 - magnitude ELSE magnitude)

\* a search that looks at the ACTIVE templates only
NameTaken_ActiveOnly(name, excludeId) ==
  \E t \in DOMAIN templates :
    /\ templates[t].name = name
    /\ templates[t].status = "ACTIVE"
    /\ Some(t) # excludeId

\* assertNameIsUnique(name, excludeId): None when no id is excluded
NameTaken(name, excludeId) ==
  \E t \in DOMAIN templates :
    /\ templates[t].name = name
    /\ Some(t) # excludeId

createTemplateFn(dto) ==
  IF dto.criteriaId \notin DOMAIN criteria THEN Fail("NotFound", None)
  ELSE IF NameTaken(dto.name, None) THEN Fail("Conflict", None)
  ELSE Ok([name |-> dto.name, criteriaId |-> dto.criteriaId,
           status |-> OrElse(dto.status, "ACTIVE"),
           sections |-> sortSections(mergeWithFixedSections(dto.sections))])

updateTemplateFn(id, dto) ==
  IF id \notin DOMAIN templates THEN Fail("NotFound", None)
  ELSE IF IsSome(dto.name) /\ NameTaken(dto.name[1], Some(id))
  THEN Fail("Conflict", None)
  ELSE IF IsSome(dto.criteriaId) /\ dto.criteriaId[1] \notin DOMAIN criteria
  THEN Fail("NotFound", None)
  ELSE Ok([name |-> OrElse(dto.name, templates[id].name),
           criteriaId |-> OrElse(dto.criteriaId, templates[id].criteriaId),
           status |-> OrElse(dto.status, templates[id].status),
           sections |->
             IF IsSome(dto.sections)
             THEN sortSections(mergeWithFixedSections(dto.sections[1]))
             ELSE templates[id].sections])

duplicateFn(id, newName) ==
  IF id \notin DOMAIN templates THEN Fail("NotFound", None)
  ELSE IF NameTaken(newName, None) THEN Fail("Conflict", None)
  ELSE Ok([name |-> newName, criteriaId |-> templates[id].criteriaId,
           status |-> "ACTIVE", sections |-> templates[id].sections])

\* a call is served while the write budget lasts; a successful one uses it up
Written(result) ==
  /\ templateWrites < MaxTemplateWrites
  /\ templateWrites' = IF result = "ok" THEN templateWrites + 1
                        ELSE templateWrites

TemplateCall(op, args, result) ==
  [op |-> op, result |-> result, args |-> args]

Insert(table, id, row) ==
  [i \in DOMAIN table \cup {id} |-> IF i = id THEN row ELSE table[i]]

Delete(table, id) ==
  [i \in DOMAIN table \ {id} |-> table[i]]

CreateTemplate(id, dto) ==
  LET r == createTemplateFn(dto) IN
  /\ id \notin DOMAIN templates
  /\ templates' = IF r.result = "ok" THEN Insert(templates, id, r.value)
                  ELSE templates
  /\ Written(r.result)
  /\ last' = TemplateCall("createTemplate", dto, r.result)
  /\ UNCHANGED <<critVars, propVars, accVars, now, calls>>

UpdateTemplate(id, dto) ==
  LET r == updateTemplateFn(id, dto) IN
  /\ templates' = IF r.result = "ok"
                  THEN [templates EXCEPT ![id] = r.value]
                  ELSE templates
  /\ Written(r.result)
  /\ last' = TemplateCall("updateTemplate", [id |-> id, dto |-> dto], r.result)
  /\ UNCHANGED <<critVars, propVars, accVars, now, calls>>

DuplicateTemplate(id, newId, newName) ==
  LET r == duplicateFn(id, newName) IN
  /\ newId \notin DOMAIN templates
  /\ templates' = IF r.result = "ok" THEN Insert(templates, newId, r.value)
                  ELSE templates
  /\ Written(r.result)
  /\ last' = Call("duplicateTemplate", id, newName, r.result)
  /\ UNCHANGED <<critVars, propVars, accVars, now, calls>>

ArchiveTemplate(id) ==
  LET result == IF id \in DOMAIN templates THEN "ok" ELSE "NotFound" IN
  /\ templates' = IF result = "ok"
                  THEN [templates EXCEPT ![id].status = "INACTIVE"]
                  ELSE templates
  /\ Written(result)
  /\ last' = Call("archiveTemplate", id, None, result)
  /\ UNCHANGED <<critVars, propVars, accVars, now, calls>>

\* a delete that does not count the properties on the template
RemoveTemplate_NoReferenceCheck(id) ==
  LET result == IF id \notin DOMAIN templates THEN "NotFound" ELSE "ok" IN
  /\ templates' = IF result = "ok" THEN Delete(templates, id) ELSE templates
  /\ Written(result)
  /\ last' = Call("removeTemplate", id, None, result)
  /\ UNCHANGED <<critVars, propVars, accVars, now, calls>>

\* remove (hard delete)
RemoveTemplate(id) ==
  LET result ==
        IF id \notin DOMAIN templates THEN "NotFound"
        ELSE IF \E p \in DOMAIN properties :
                  properties[p].activeTemplateId = Some(id)
        THEN "Conflict"
        ELSE "ok" IN
  /\ templates' = IF result = "ok" THEN Delete(templates, id) ELSE templates
  /\ Written(result)
  /\ last' = Call("removeTemplate", id, None, result)
  /\ UNCHANGED <<critVars, propVars, accVars, now, calls>>

\* the section mutations: findOne, compute, store the whole array
SectionCall(op, id, r) ==
  /\ templates' = IF r.result = "ok"
                  THEN [templates EXCEPT ![id].sections = r.value]
                  ELSE templates
  /\ Written(r.result)
  /\ last' = Call(op, id, None, r.result)
  /\ UNCHANGED <<critVars, propVars, accVars, now, calls>>

AddTextField(id, dto) ==
  SectionCall("addTextField", id,
    IF id \notin DOMAIN templates THEN NotFound
    ELSE addTextFieldFn(templates[id].sections, dto))

AddMediaSection(id, dto) ==
  SectionCall("addMediaField", id,
    IF id \notin DOMAIN templates THEN NotFound
    ELSE addMediaSectionFn(templates[id].sections, dto))

\* controller removeSection: parseInt of the :order parameter, then the
\* service call
RemoveSection(id, order) ==
  SectionCall("removeDynamicSection", id,
    IF id \notin DOMAIN templates THEN NotFound
    ELSE IF parseInt(order) = None
    THEN Fail("NotFound", templates[id].sections)
    ELSE removeDynamicSectionFn(templates[id].sections, parseInt(order)[1]))

UpdateSectionStyle(id, dto) ==
  SectionCall("updateSectionStyle", id,
    IF id \notin DOMAIN templates THEN NotFound
    ELSE updateSectionStyleFn(templates[id].sections, dto))

ReorderSections(id, orderedTypes) ==
  SectionCall("reorderSections", id,
    IF id \notin DOMAIN templates THEN NotFound
    ELSE reorderSectionsFn(templates[id].sections, orderedTypes))

\* ---- inputs of the template operations ----
TemplateNames == {"Standard", "Copy"}

SectionDto(order, type, label, isDynamic) ==
  [order |-> order, type |-> type, label |-> label, isDynamic |-> isDynamic,
   config |-> None, style |-> None]

TextSectionDto(order) ==
  [SectionDto(order, "text_field", "Notes", TRUE) EXCEPT
     !.config = Some([label |-> "Notes", placeholder |-> ""])]

MediaSectionDto(order) ==
  [SectionDto(order, "media_field", "Aerial Map", TRUE) EXCEPT
     !.config = Some([title |-> "Aerial Map", mediaType |-> "media"])]

SectionsNone == <<>>
SectionsTwoDynamic == <<TextSectionDto(1), MediaSectionDto(2)>>
\* unsorted, and one fixed type supplied by the caller with its own label
SectionsUnsorted ==
  <<MediaSectionDto(2), SectionDto(101, "documents", "Files", FALSE),
    TextSectionDto(1)>>
\* TemplateSectionDto lets the caller pair any type with any isDynamic
SectionsFixedAsDynamic ==
  <<SectionDto(1, "priority_repair_planning", "Repairs", TRUE)>>
\* TemplateSectionDto bounds order only from below
SectionsHighOrder == <<TextSectionDto(100)>>

SectionLists ==
  {SectionsNone, SectionsTwoDynamic, SectionsUnsorted, SectionsFixedAsDynamic,
   SectionsHighOrder}

CreateTemplateDtos ==
  {[name |-> n, criteriaId |-> "c1", status |-> None, sections |-> l] :
     n \in {"Standard"}, l \in SectionLists}

UpdateTemplateDtos ==
  {[name |-> None, criteriaId |-> None, status |-> None, sections |-> Some(l)] :
     l \in SectionLists}
  \cup {[name |-> Some("Copy"), criteriaId |-> Some("c1"),
         status |-> Some("ACTIVE"), sections |-> None]}

AddTextFieldDtos ==
  {[label |-> "Notes", placeholder |-> None, style |-> None]}

AddMediaSectionDtos ==
  {[title |-> "3D Tour", mediaType |-> "embedded",
    embedUrl |-> Some("https://tour"), style |-> None]}

OrderParams ==
  {<<"1">>, <<"2">>, <<"1", "0", "0">>, <<"1", "0", "1">>, <<"2", "x">>,
   <<"x">>}

UpdateSectionStyleDtos ==
  {[order |-> 1, style |-> [fill |-> Obj([color |-> Leaf("red")])]],
   [order |-> 1, style |-> [fill |-> Obj([opacity |-> Leaf(50)])]],
   [order |-> 7, style |-> [fill |-> Obj([color |-> Leaf("red")])]]}

Reverse(seq) == [i \in DOMAIN seq |-> seq[Len(seq) + 1 - i]]

\* requested type sequences: the stored types reversed, one type repeated,
\* a list of the wrong length, a list naming a type the template lacks
OrderedTypeLists(id) ==
  IF id \notin DOMAIN templates THEN {<<"documents">>}
  ELSE LET types == [i \in DOMAIN templates[id].sections |->
                       templates[id].sections[i].type]
       IN  {Reverse(types),
            [i \in DOMAIN types |-> "text_field"],
            <<"documents">>,
            [i \in DOMAIN types |-> IF i = 1 THEN "unknown" ELSE types[i]]}

NextTemplates ==
  \/ CreateCriteria("c1", DtoStandard)
  \/ \E id \in TemplateIds :
       \/ \E dto \in CreateTemplateDtos : CreateTemplate(id, dto)
       \/ \E dto \in UpdateTemplateDtos : UpdateTemplate(id, dto)
       \/ \E newId \in TemplateIds, n \in TemplateNames :
            DuplicateTemplate(id, newId, n)
       \/ ArchiveTemplate(id)
       \/ RemoveTemplate(id)
       \/ \E dto \in AddTextFieldDtos : AddTextField(id, dto)
       \/ \E dto \in AddMediaSectionDtos : AddMediaSection(id, dto)
       \/ \E order \in OrderParams : RemoveSection(id, order)
       \/ \E dto \in UpdateSectionStyleDtos : UpdateSectionStyle(id, dto)
       \/ \E types \in OrderedTypeLists(id) : ReorderSections(id, types)

SpecTemplates == Init /\ [][NextTemplates]_vars

(***************************************************************************)
(* Properties of the template service                                      *)
(***************************************************************************)
FIXED_SECTION_TYPES ==
  {"priority_repair_planning", "documents", "additional_information"}

\* C4: every stored template holds a section of each of the three fixed
\* types, whatever sequence of template operations led to the state.
C4_FixedSectionsPresent ==
  \A t \in DOMAIN templates :
    FIXED_SECTION_TYPES \subseteq Types(templates[t].sections)

\* the sections a create or update-with-sections call was given, and the
\* template it wrote
SuppliedSections ==
  IF last.op = "createTemplate" THEN last.args.sections
  ELSE last.args.dto.sections[1]

SectionsWritten ==
  /\ last.result = "ok"
  /\ \/ last.op = "createTemplate"
     \/ last.op = "updateTemplate" /\ IsSome(last.args.dto.sections)

WrittenTemplates ==
  IF last.op = "createTemplate"
  THEN {t \in DOMAIN templates : templates[t].name = last.args.name}
  ELSE {last.args.id}

\* a supplied section as it is stored: absent config and style become {}
AsStored(s) ==
  [order |-> s.order, type |-> s.type, label |-> s.label,
   isDynamic |-> s.isDynamic,
   config |-> IF s.config = None THEN EmptyObject ELSE s.config[1],
   style |-> IF s.style = None THEN EmptyObject ELSE s.style[1]]

Occurrences(seq, x) == Cardinality({i \in DOMAIN seq : seq[i] = x})

DefaultOrder(type) ==
  CASE type = "priority_repair_planning" -> 100
    [] type = "documents" -> 101
    [] type = "additional_information" -> 102

\* how often section x is expected in the stored list
Expected(supplied, x) ==
  Cardinality({i \in DOMAIN supplied : AsStored(supplied[i]) = x})
  + (IF /\ x.type \in FIXED_SECTION_TYPES
        /\ \A i \in DOMAIN supplied : supplied[i].type # x.type
        /\ ~x.isDynamic
        /\ x.order = DefaultOrder(x.type)
     THEN 1 ELSE 0)

\* C5: after a successful create or update-with-sections the stored list
\* holds each supplied section as often as it was supplied, plus one section
\* (isDynamic = false, default order 100/101/102) for every fixed type the
\* input lacks, and nothing else; the list is sorted by order.
C5_MergedAndSorted ==
  SectionsWritten =>
    \A t \in WrittenTemplates :
      LET stored == templates[t].sections
          supplied == SuppliedSections IN
      /\ \A i, j \in DOMAIN stored : i < j => stored[i].order <= stored[j].order
      /\ Len(stored) = Len(supplied)
           + Cardinality(FIXED_SECTION_TYPES \ Types(supplied))
      /\ \A i \in DOMAIN stored :
           Occurrences(stored, stored[i]) = Expected(supplied, stored[i])

\* two dynamic sections were supplied and five are stored, the fixed ones
\* at 100..102
C5_Witness ==
  /\ SectionsWritten
  /\ last.op = "updateTemplate"
  /\ SuppliedSections = SectionsTwoDynamic
  /\ \E t \in WrittenTemplates :
       /\ Len(templates[t].sections) = 5
       /\ {templates[t].sections[i].order : i \in 3..5} = {100, 101, 102}


\* the types of the stored sections that a list of types does not name
OmittedTypes(sections, orderedTypes) ==
  {sections[i].type : i \in DOMAIN sections} \ Range(orderedTypes)

\* C15: reorderSections with a list whose length differs from the number of
\* stored sections, or that omits a type the template holds (for instance by
\* naming another type twice), is answered BadRequest and the stored sections
\* and their orders stay as they were.
C15_ReorderRejectsIncomplete ==
  [][\A id \in DOMAIN templates : \A orderedTypes \in OrderedTypeLists(id) :
       (/\ \/ Len(orderedTypes) # Len(templates[id].sections)
           \/ OmittedTypes(templates[id].sections, orderedTypes) # {}
        /\ ReorderSections(id, orderedTypes))
       => /\ last'.result = "BadRequest"
          /\ templates' = templates]_vars

UniqueNames ==
  \A t \in DOMAIN templates, u \in DOMAIN templates :
    templates[t].name = templates[u].name => t = u

\* the name is the name of a stored template other than id
NameOfAnother(name, id) ==
  \E t \in DOMAIN templates \ {id} : templates[t].name = name

\* C17: no two stored templates have the same name in any state reached by
\* create, update and duplicate calls (and the section, archive and remove
\* calls between them); a create on a stored criteria, an update of a stored
\* template and a duplicate of a stored template that would give a template
\* the name of another stored template is answered Conflict and the stored
\* templates stay as they were; every other duplicate of a stored template
\* succeeds and adds one template with the new name, the source's criteriaId,
\* status ACTIVE and the source's sections, every stored template, the
\* source included, staying as it was.
C17_UniqueNames ==
  /\ []UniqueNames
  /\ [][\/ last'.op \notin {"createTemplate", "updateTemplate",
                            "duplicateTemplate"}
        \/ /\ \A id \in TemplateIds, dto \in CreateTemplateDtos :
                (/\ CreateTemplate(id, dto)
                 /\ dto.criteriaId \in DOMAIN criteria
                 /\ NameOfAnother(dto.name, id))
                => last'.result = "Conflict" /\ templates' = templates
           /\ \A id \in DOMAIN templates, dto \in UpdateTemplateDtos :
                (/\ UpdateTemplate(id, dto)
                 /\ IsSome(dto.name)
                 /\ NameOfAnother(dto.name[1], id))
                => last'.result = "Conflict" /\ templates' = templates
           /\ \A id \in DOMAIN templates, newId \in TemplateIds,
                 n \in TemplateNames :
                DuplicateTemplate(id, newId, n) =>
                  IF NameOfAnother(n, newId)
                  THEN last'.result = "Conflict" /\ templates' = templates
                  ELSE /\ last'.result = "ok"
                       /\ templates' =
                            [t \in DOMAIN templates \cup {newId} |->
                               IF t = newId
                               THEN [name |-> n,
                                     criteriaId |-> templates[id].criteriaId,
                                     status |-> "ACTIVE",
                                     sections |-> templates[id].sections]
                               ELSE templates[t]]]_vars

\* a template with dynamic sections was archived and then duplicated: the
\* copy is ACTIVE under another name with the same sections, the source is
\* still INACTIVE
C17_Witness ==
  /\ last.op = "duplicateTemplate"
  /\ last.result = "ok"
  /\ \E t \in DOMAIN templates, u \in DOMAIN templates :
       /\ templates[t].name # templates[u].name
       /\ templates[t].status = "INACTIVE"
       /\ templates[u].status = "ACTIVE"
       /\ templates[u].sections = templates[t].sections
       /\ Len(templates[t].sections) > Len(DEFAULT_FIXED_SECTIONS)

RemoveAt(s, i) == SubSeq(s, 1, i - 1) \o SubSeq(s, i + 1, Len(s))

DynamicOf(sections) == SelectSeq(sections, LAMBDA s : s.isDynamic)
FixedOf(sections) == SelectSeq(sections, LAMBDA s : ~s.isDynamic)
\* after is before without its section at idx, the dynamic sections
\* numbered 1..N in their previous relative order, the fixed sections as
\* they were
RemovedOne(before, idx, after) ==
  LET rest == RemoveAt(before, idx) IN
  /\ Len(after) = Len(before) - 1
  /\ Unordered(DynamicOf(after)) = Unordered(DynamicOf(rest))
  /\ \A i \in DOMAIN DynamicOf(after) : DynamicOf(after)[i].order = i
  /\ FixedOf(after) = FixedOf(before)

\* C22: removeDynamicSection(order) on a fixed section is answered
\* BadRequest and changes nothing; on a dynamic section it succeeds and
\* removes that one section only (one section fewer), numbers the remaining
\* dynamic sections 1..N in their previous relative order and keeps every
\* fixed section with its order.
C22_RemovesExactlyOne ==
  [][\A id \in DOMAIN templates, order \in OrderParams :
       LET before == templates[id].sections
           idx == IF parseInt(order) = None THEN 0
                  ELSE FindIndexByOrder(before, parseInt(order)[1])
       IN  (idx # 0 /\ RemoveSection(id, order)) =>
             IF ~before[idx].isDynamic
             THEN last'.result = "BadRequest" /\ templates' = templates
             ELSE /\ last'.result = "ok"
                  /\ RemovedOne(before, idx, templates'[id].sections)
                  /\ \A t \in DOMAIN templates \ {id} :
                       templates'[t] = templates[t]]_vars

Count(seq, x) == Cardinality({i \in DOMAIN seq : seq[i] = x})

\* the same sections, orders aside: each as often after as before
SameSections(before, after) ==
  /\ Len(after) = Len(before)
  /\ \A i \in DOMAIN before :
       Count(Unordered(after), Unordered(before)[i])
         = Count(Unordered(before), Unordered(before)[i])

\* C23: a successful reorderSections stores exactly the sections stored
\* before (same count, each with its type, label, isDynamic, config and
\* style, none twice and none lost, also with several sections of one
\* type), with orders 1..N following the requested type sequence.
C23_ReorderIsPermutation ==
  [][\A id \in DOMAIN templates : \A orderedTypes \in OrderedTypeLists(id) :
       (ReorderSections(id, orderedTypes) /\ last'.result = "ok") =>
         LET before == templates[id].sections
             after == templates'[id].sections
         IN  /\ SameSections(before, after)
             /\ \A i \in DOMAIN after :
                  after[i].order = i /\ after[i].type = orderedTypes[i]]_vars

\* style requests as SectionStyleDto admits them: groups of leaves, every
\* group and every leaf sent or left out, a group also sent empty
StyleKeys == {"color", "opacity", "size"}
FillObjects ==
  {Obj(EmptyObject), Obj([color |-> Leaf("blue")]), Obj([opacity |-> Leaf(50)]),
   Obj([color |-> Leaf("red"), opacity |-> Leaf(50)])}
StyleRequests ==
  UNION {{[group \in D |-> IF group = "fill" THEN fill
                            ELSE Obj([size |-> Leaf(12)])] :
            fill \in FillObjects} :
           D \in SUBSET {"fill", "typography"}}

\* the leaf at group.key of a style, None when there is none
LeafAt(style, group, key) ==
  IF group \in DOMAIN style /\ key \in DOMAIN style[group].obj
  THEN Some(style[group].obj[key]) ELSE None

\* merged holds the groups of either style; each leaf the request names has
\* the value sent, each other leaf the value it had
StyleMerged(stored, sent, merged) ==
  /\ DOMAIN merged = DOMAIN stored \cup DOMAIN sent
  /\ \A group \in DOMAIN merged, key \in StyleKeys :
       LeafAt(merged, group, key) =
         IF LeafAt(sent, group, key) # None THEN LeafAt(sent, group, key)
         ELSE LeafAt(stored, group, key)

\* sections is before with the style of its section at idx merged with the
\* style sent and nothing else changed
StyleUpdated(before, idx, sent, after) ==
  /\ Len(after) = Len(before)
  /\ \A i \in DOMAIN before \ {idx} : after[i] = before[i]
  /\ [after[idx] EXCEPT !.style = before[idx].style] = before[idx]
  /\ StyleMerged(before[idx].style, sent, after[idx].style)

StyleMergeChecked ==
  \A id \in DOMAIN templates, order \in {1, 100}, sent \in StyleRequests :
    LET before == templates[id].sections
        dto == [order |-> order, style |-> sent]
        idx == FindIndexByOrder(before, order)
        r == updateSectionStyleFn(before, dto)
    IN  idx # 0 =>
          /\ r.result = "ok"
          /\ StyleUpdated(before, idx, sent, r.value)
          /\ updateSectionStyleFn(r.value, dto) = r

\* C24: updateSectionStyle merges the style sent into the stored style of
\* the section addressed by order: every leaf the request names takes the
\* value sent, every other leaf of every group keeps its value, the other
\* attributes of that section and all other sections and templates stay as
\* they were, and the same request applied again changes nothing.
C24_StyleDeepMerge ==
  /\ []StyleMergeChecked
  /\ [][\A id \in DOMAIN templates, dto \in UpdateSectionStyleDtos :
          LET before == templates[id].sections
              idx == FindIndexByOrder(before, dto.order)
          IN  (idx # 0 /\ UpdateSectionStyle(id, dto)) =>
                /\ last'.result = "ok"
                /\ StyleUpdated(before, idx, dto.style,
                                templates'[id].sections)
                /\ \A t \in DOMAIN templates \ {id} :
                     templates'[t] = templates[t]]_vars

\* a style request has just been merged into a section that already held
\* another leaf of the same group: both leaves are stored
C24_Witness ==
  /\ last.op = "updateSectionStyle"
  /\ last.result = "ok"
  /\ \E id \in DOMAIN templates : \E i \in DOMAIN templates[id].sections :
       /\ LeafAt(templates[id].sections[i].style, "fill", "color")
            = Some(Leaf("red"))
       /\ LeafAt(templates[id].sections[i].style, "fill", "opacity")
            = Some(Leaf(50))

DistinctOrders(sections) ==
  \A i \in DOMAIN sections, j \in DOMAIN sections :
    sections[i].order = sections[j].order => i = j

SortedByOrder(sections) ==
  \A i \in DOMAIN sections, j \in DOMAIN sections :
    i < j => sections[i].order <= sections[j].order

\* C28: in every state reached by template operations the order values of
\* each template's sections are pairwise distinct and the stored list is
\* sorted by ascending order (also after addTextField/addMediaField
\* following a reorderSections, and after a create with a caller-chosen
\* order of 100..102).
C28_DistinctSortedOrders ==
  \A id \in DOMAIN templates :
    /\ DistinctOrders(templates[id].sections)
    /\ SortedByOrder(templates[id].sections)

(***************************************************************************)
(* Property access: PropertyAccessService, and the two operations of       *)
(* PropertyDashboardService that create a property and set its manager     *)
(***************************************************************************)
Users == {"admin", "pm1", "pm2", "viewer"}
PropertyIds == {"p1", "p2"}
MaxAudit == 3   \* audit-log rows written before logging calls are cut off

\* the role column of the user rows; users are created elsewhere and never
\* hard-deleted
UserRole(u) ==
  CASE u = "admin" -> "ADMIN"
    [] u \in {"pm1", "pm2"} -> "PROPERTY_MANAGER"
    [] OTHER -> "AUTHORIZED_VIEWER"

AuditEntry(userId, propertyId, action, entityId) ==
  [user_id |-> userId, property_id |-> propertyId, action |-> action,
   entity_id |-> entityId]

Upsert(table, id, row) ==
  [i \in DOMAIN table \cup {id} |-> IF i = id THEN row ELSE table[i]]

\* the outcome of createProperty: the template it resolves must be ACTIVE,
\* a manager it names must be a PROPERTY_MANAGER
createPropertyFn(dto) ==
  IF ~\E t \in DOMAIN templates :
        /\ templates[t].status = "ACTIVE"
        /\ IsSome(dto.templateId) => t = dto.templateId[1]
  THEN Fail("BadRequest", None)
  ELSE IF /\ IsSome(dto.propertyManagerId)
          /\ ~(/\ dto.propertyManagerId[1] \in Users
               /\ UserRole(dto.propertyManagerId[1]) = "PROPERTY_MANAGER")
  THEN Fail("NotFound", None)
  ELSE Ok([propertyManagerId |-> dto.propertyManagerId,
           activeTemplateId |-> dto.templateId])

assignPropertyManagerFn(propertyId, dto) ==
  IF propertyId \notin DOMAIN properties THEN Fail("NotFound", None)
  ELSE IF ~(/\ dto.propertyManagerId \in Users
            /\ UserRole(dto.propertyManagerId) = "PROPERTY_MANAGER")
  THEN Fail("NotFound", None)
  ELSE Ok([properties[propertyId] EXCEPT
             !.propertyManagerId = Some(dto.propertyManagerId)])

\* an upsert that sets the status only and keeps the recorded review
requestAccessFn_KeepsReview(propertyId, requesterId) ==
  LET id == <<propertyId, requesterId>> IN
  IF propertyId \notin DOMAIN properties THEN Fail("NotFound", None)
  ELSE IF id \in DOMAIN propertyAccess /\ propertyAccess[id].revokedAt = None
  THEN Fail("Conflict", None)
  ELSE IF id \in DOMAIN accessRequests /\ accessRequests[id].status = "PENDING"
  THEN Fail("Conflict", None)
  ELSE IF id \in DOMAIN accessRequests
  THEN Ok([accessRequests[id] EXCEPT !.status = "PENDING"])
  ELSE Ok([status |-> "PENDING", reviewedBy |-> None, reviewedAt |-> None])

\* requestAccess: the request row it upserts
requestAccessFn(propertyId, requesterId) ==
  LET id == <<propertyId, requesterId>> IN
  IF propertyId \notin DOMAIN properties THEN Fail("NotFound", None)
  ELSE IF id \in DOMAIN propertyAccess /\ propertyAccess[id].revokedAt = None
  THEN Fail("Conflict", None)
  ELSE IF id \in DOMAIN accessRequests /\ accessRequests[id].status = "PENDING"
  THEN Fail("Conflict", None)
  ELSE Ok([status |-> "PENDING", reviewedBy |-> None, reviewedAt |-> None])

\* a guard that lets every property manager through
assertCanReviewFn_AnyManager(reviewerId, propertyId) ==
  IF reviewerId \notin Users THEN "NotFound"
  ELSE IF UserRole(reviewerId) \in {"ADMIN", "PROPERTY_MANAGER"} THEN "ok"
  ELSE "Forbidden"

\* _assertCanReview
assertCanReviewFn(reviewerId, propertyId) ==
  IF reviewerId \notin Users THEN "NotFound"
  ELSE IF UserRole(reviewerId) = "ADMIN" THEN "ok"
  ELSE IF \/ propertyId \notin DOMAIN properties
          \/ properties[propertyId].propertyManagerId # Some(reviewerId)
  THEN "Forbidden"
  ELSE "ok"

\* a review that does not look at the request's status
reviewOutcome_NoPendingCheck(requestId, reviewerId, dto) ==
  IF requestId \notin DOMAIN accessRequests THEN "NotFound"
  ELSE IF assertCanReviewFn(reviewerId, requestId[1]) # "ok"
  THEN assertCanReviewFn(reviewerId, requestId[1])
  ELSE IF dto.action = "APPROVED" THEN "approved"
  ELSE IF dto.action = "DECLINED"
  THEN IF ~Truthy(dto.declineReason) THEN "BadRequest" ELSE "declined"
  ELSE "none"

\* reviewAccessRequest up to its writes: the exception it throws, or which
\* branch writes ("approved", "declined", or "none" for an action string
\* that is neither)
reviewOutcome(requestId, reviewerId, dto) ==
  IF requestId \notin DOMAIN accessRequests THEN "NotFound"
  ELSE IF accessRequests[requestId].status # "PENDING" THEN "BadRequest"
  ELSE IF assertCanReviewFn(reviewerId, requestId[1]) # "ok"
  THEN assertCanReviewFn(reviewerId, requestId[1])
  ELSE IF dto.action = "APPROVED" THEN "approved"
  ELSE IF dto.action = "DECLINED"
  THEN IF ~Truthy(dto.declineReason) THEN "BadRequest" ELSE "declined"
  ELSE "none"

\* the row written by the upsert of an approval or a share
GrantedRow(granterId, expiresAt) ==
  [grantedBy |-> granterId, expiresAt |-> expiresAt, revokedAt |-> None,
   revokedBy |-> None]

\* a decision that tests the expiry before the revocation
checkDashboardAccessFn_ExpiryFirst(propertyId, userId, userRole, t) ==
  LET id == <<propertyId, userId>> IN
  IF userRole = "ADMIN" THEN "ok"
  ELSE IF /\ propertyId \in DOMAIN properties
          /\ properties[propertyId].propertyManagerId = Some(userId)
  THEN "ok"
  ELSE IF id \notin DOMAIN propertyAccess THEN "NO_ACCESS"
  ELSE IF /\ IsSome(propertyAccess[id].expiresAt)
          /\ propertyAccess[id].expiresAt[1] < t
  THEN "EXPIRED"
  ELSE IF IsSome(propertyAccess[id].revokedAt) THEN "REVOKED"
  ELSE "ok"

\* checkDashboardAccess at clock value t
checkDashboardAccessFn(propertyId, userId, userRole, t) ==
  LET id == <<propertyId, userId>> IN
  IF userRole = "ADMIN" THEN "ok"
  ELSE IF /\ propertyId \in DOMAIN properties
          /\ properties[propertyId].propertyManagerId = Some(userId)
  THEN "ok"
  ELSE IF id \notin DOMAIN propertyAccess THEN "NO_ACCESS"
  ELSE IF IsSome(propertyAccess[id].revokedAt) THEN "REVOKED"
  ELSE IF /\ IsSome(propertyAccess[id].expiresAt)
          /\ propertyAccess[id].expiresAt[1] < t
  THEN "EXPIRED"
  ELSE "ok"

\* shareDashboard: the user row found by id or by e-mail
\* getDashboardAccessList: the users of the rows selected by
\* { propertyId, revokedAt: null, OR: [{expiresAt: null}, {expiresAt: {gt: now}}] }
getDashboardAccessListFn(propertyId, t) ==
  IF propertyId \notin DOMAIN properties THEN Fail("NotFound", {})
  ELSE Ok({id[2] : id \in {i \in DOMAIN propertyAccess :
                    /\ i[1] = propertyId
                    /\ propertyAccess[i].revokedAt = None
                    /\ \/ propertyAccess[i].expiresAt = None
                       \/ propertyAccess[i].expiresAt[1] > t}})

Email(u) == u \o "@example.com"
FindUser(emailOrUserId) ==
  {u \in Users : emailOrUserId = u \/ emailOrUserId = Email(u)}

\* an upsert whose update leaves the row's revocation as it is
shareDashboardFn_KeepsRevocation(propertyId, granterId, dto) ==
  LET u == CHOOSE x \in FindUser(dto.emailOrUserId) : TRUE
      id == <<propertyId, u>> IN
  IF propertyId \notin DOMAIN properties THEN Fail("NotFound", None)
  ELSE IF FindUser(dto.emailOrUserId) = {} THEN Fail("NotFound", None)
  ELSE Ok([userId |-> u,
           row |-> IF id \in DOMAIN propertyAccess
                   THEN [propertyAccess[id] EXCEPT
                           !.grantedBy = granterId,
                           !.expiresAt = dto.expiresAt]
                   ELSE GrantedRow(granterId, dto.expiresAt)])

shareDashboardFn(propertyId, granterId, dto) ==
  IF propertyId \notin DOMAIN properties THEN Fail("NotFound", None)
  ELSE IF FindUser(dto.emailOrUserId) = {} THEN Fail("NotFound", None)
  ELSE Ok([userId |-> CHOOSE u \in FindUser(dto.emailOrUserId) : TRUE,
           row |-> GrantedRow(granterId, dto.expiresAt)])

\* an update that stamps the time of the revocation and not the revoker
revokeAccessFn_NoRevoker(propertyId, targetUserId, revokerId, t) ==
  LET id == <<propertyId, targetUserId>> IN
  IF propertyId \notin DOMAIN properties THEN Fail("NotFound", None)
  ELSE IF id \notin DOMAIN propertyAccess \/ IsSome(propertyAccess[id].revokedAt)
  THEN Fail("NotFound", None)
  ELSE Ok([propertyAccess[id] EXCEPT !.revokedAt = Some(t)])

\* revokeAccess: the row it updates
revokeAccessFn(propertyId, targetUserId, revokerId, t) ==
  LET id == <<propertyId, targetUserId>> IN
  IF propertyId \notin DOMAIN properties THEN Fail("NotFound", None)
  ELSE IF id \notin DOMAIN propertyAccess \/ IsSome(propertyAccess[id].revokedAt)
  THEN Fail("NotFound", None)
  ELSE Ok([propertyAccess[id] EXCEPT
             !.revokedAt = Some(t), !.revokedBy = Some(revokerId)])

\* a call that writes an audit row is served while the log has room
Logged(wouldLog) == wouldLog => Len(auditLog) < MaxAudit

CreateProperty(id, dto, adminId) ==
  LET r == createPropertyFn(dto) IN
  /\ id \notin DOMAIN properties
  /\ Logged(r.result = "ok")
  /\ IF r.result = "ok"
     THEN /\ properties' = Upsert(properties, id, r.value)
          /\ auditLog' = Append(auditLog,
               AuditEntry(adminId, id, "property_created", <<id>>))
     ELSE UNCHANGED <<properties, auditLog>>
  /\ last' = Call("createProperty", id, dto, r.result)
  /\ UNCHANGED <<critVars, tmplVars, accessRequests, propertyAccess, now, calls>>

AssignPropertyManager(propertyId, dto, adminId) ==
  LET r == assignPropertyManagerFn(propertyId, dto) IN
  /\ Logged(r.result = "ok")
  /\ IF r.result = "ok"
     THEN /\ properties' = [properties EXCEPT ![propertyId] = r.value]
          /\ auditLog' = Append(auditLog,
               AuditEntry(adminId, propertyId, "property_manager_assigned",
                          <<propertyId>>))
     ELSE UNCHANGED <<properties, auditLog>>
  /\ last' = Call("assignPropertyManager", propertyId, dto, r.result)
  /\ UNCHANGED <<critVars, tmplVars, accessRequests, propertyAccess, now, calls>>

RequestAccess(propertyId, requesterId) ==
  LET r == requestAccessFn(propertyId, requesterId) IN
  /\ accessRequests' =
       IF r.result = "ok"
       THEN Upsert(accessRequests, <<propertyId, requesterId>>, r.value)
       ELSE accessRequests
  /\ last' = Call("requestAccess", propertyId, requesterId, r.result)
  /\ UNCHANGED <<critVars, tmplVars, propVars, propertyAccess, auditLog, now, calls>>

\* the three tables the access workflow writes
Db == [accessRequests |-> accessRequests, propertyAccess |-> propertyAccess,
       auditLog |-> auditLog]

\* the writes of the approval, in the order of the code: the tables before
\* the first write and after each of the three writes
ApprovalSteps(db, requestId, reviewerId, dto, t) ==
  LET s1 == [db EXCEPT !.accessRequests[requestId] =
               [status |-> "APPROVED", reviewedBy |-> Some(reviewerId),
                reviewedAt |-> Some(t)]]
      s2 == [s1 EXCEPT !.propertyAccess =
               Upsert(@, requestId, GrantedRow(reviewerId, dto.expiresAt))]
      s3 == [s2 EXCEPT !.auditLog =
               Append(@, AuditEntry(reviewerId, requestId[1],
                                    "access_request_approved", requestId))]
  IN  <<db, s1, s2, s3>>

\* writes that stay when a later write throws
transaction_NoRollback(steps, failAt) ==
  IF failAt = 0 THEN steps[Len(steps)] ELSE steps[failAt]

\* prisma.$transaction(async (tx) => ...): every write is committed, or, when
\* write number failAt throws, none is
transaction(steps, failAt) ==
  IF failAt = 0 THEN steps[Len(steps)] ELSE steps[1]

\* reviewAccessRequest: the whole call; failAt = 0 when no write of the
\* approval throws, else the number of the write that throws
ReviewAccessRequestTx(requestId, reviewerId, dto, failAt) ==
  LET outcome == reviewOutcome(requestId, reviewerId, dto)
      reviewed == [accessRequests[requestId] EXCEPT
                     !.reviewedBy = Some(reviewerId),
                     !.reviewedAt = Some(now)]
      db == transaction(ApprovalSteps(Db, requestId, reviewerId, dto, now),
                        failAt) IN
  /\ CASE outcome = "approved" ->
            /\ accessRequests' = db.accessRequests
            /\ propertyAccess' = db.propertyAccess
            /\ auditLog' = db.auditLog
       [] outcome = "declined" ->
            /\ accessRequests' = [accessRequests EXCEPT ![requestId] =
                                    [reviewed EXCEPT !.status = "DECLINED"]]
            /\ auditLog' = Append(auditLog,
                 AuditEntry(reviewerId, requestId[1],
                            "access_request_declined", requestId))
            /\ UNCHANGED propertyAccess
       [] OTHER -> UNCHANGED accVars
  /\ last' = Call("reviewAccessRequest", requestId, dto,
                  IF outcome = "approved" /\ failAt # 0 THEN "InternalError"
                  ELSE IF outcome \in {"approved", "declined", "none"}
                  THEN "ok" ELSE outcome)
  /\ UNCHANGED <<critVars, tmplVars, propVars, now, calls>>

ReviewAccessRequestStep(requestId, reviewerId, dto) ==
  ReviewAccessRequestTx(requestId, reviewerId, dto, 0)

ReviewAccessRequest(requestId, reviewerId, dto) ==
  /\ Logged(reviewOutcome(requestId, reviewerId, dto)
              \in {"approved", "declined"})
  /\ ReviewAccessRequestStep(requestId, reviewerId, dto)

\* controller checkAccess: the caller's id and role come from the token
CheckDashboardAccess(propertyId, userId) ==
  /\ last' = [op |-> "checkDashboardAccess",
              result |-> checkDashboardAccessFn(propertyId, userId,
                                                UserRole(userId), now),
              args |-> [propertyId |-> propertyId, userId |-> userId]]
  /\ UNCHANGED <<critVars, tmplVars, propVars, accVars, now, calls>>

\* shareDashboard: the whole call
GetDashboardAccessList(propertyId) ==
  /\ last' = Call("getDashboardAccessList", propertyId, None,
                  getDashboardAccessListFn(propertyId, now).result)
  /\ UNCHANGED <<critVars, tmplVars, propVars, accVars, now, calls>>

ShareDashboardStep(propertyId, granterId, dto) ==
  LET r == shareDashboardFn(propertyId, granterId, dto) IN
  /\ IF r.result = "ok"
     THEN /\ propertyAccess' = Upsert(propertyAccess,
                                 <<propertyId, r.value.userId>>, r.value.row)
          /\ auditLog' = Append(auditLog,
               AuditEntry(granterId, propertyId, "dashboard_shared",
                          <<propertyId, r.value.userId>>))
     ELSE UNCHANGED <<propertyAccess, auditLog>>
  /\ last' = Call("shareDashboard", propertyId, dto, r.result)
  /\ UNCHANGED <<critVars, tmplVars, propVars, accessRequests, now, calls>>

ShareDashboard(propertyId, granterId, dto) ==
  /\ Logged(shareDashboardFn(propertyId, granterId, dto).result = "ok")
  /\ ShareDashboardStep(propertyId, granterId, dto)

\* revokeAccess: the whole call
RevokeAccessStep(propertyId, targetUserId, revokerId) ==
  LET r == revokeAccessFn(propertyId, targetUserId, revokerId, now) IN
  /\ IF r.result = "ok"
     THEN /\ propertyAccess' =
               [propertyAccess EXCEPT ![<<propertyId, targetUserId>>] = r.value]
          /\ auditLog' = Append(auditLog,
               AuditEntry(revokerId, propertyId, "access_revoked",
                          <<propertyId, targetUserId>>))
     ELSE UNCHANGED <<propertyAccess, auditLog>>
  /\ last' = Call("revokeAccess", propertyId, targetUserId, r.result)
  /\ UNCHANGED <<critVars, tmplVars, propVars, accessRequests, now, calls>>

RevokeAccess(propertyId, targetUserId, revokerId) ==
  /\ Logged(revokeAccessFn(propertyId, targetUserId, revokerId, now).result
              = "ok")
  /\ RevokeAccessStep(propertyId, targetUserId, revokerId)

\* ---- inputs of the access operations ----
CreatePropertyDtos ==
  {[propertyManagerId |-> m, templateId |-> Some("t1")] :
     m \in {None, Some("pm1"), Some("viewer")}}

AssignPropertyManagerDtos == {[propertyManagerId |-> u] : u \in {"pm2", "viewer"}}

Requesters == {"viewer"}

\* no expiry, or an expiry at clock value 0 (passed once the clock moves)
ExpiryInputs == {None, Some(0)}

ReviewAccessRequestDtos ==
  {[action |-> "APPROVED", declineReason |-> None, expiresAt |-> e] :
     e \in ExpiryInputs}
  \cup {[action |-> "DECLINED", declineReason |-> d, expiresAt |-> None] :
          d \in {None, Some("not a tenant")}}
  \cup {[action |-> "approve", declineReason |-> None, expiresAt |-> None]}

ShareDashboardDtos ==
  {[emailOrUserId |-> "viewer", expiresAt |-> e] : e \in ExpiryInputs}
  \cup {[emailOrUserId |-> u, expiresAt |-> None] :
          u \in {Email("viewer"), "nobody"}}

\* the state after an admin created criteria c1, template t1 on it, and
\* property p1 managed by pm1
InitAccess ==
  /\ criteria = Upsert(Empty, "c1", CreateCriteriaFn(DtoStandard).value)
  /\ templates = Upsert(Empty, "t1",
       [name |-> "Standard", criteriaId |-> "c1", status |-> "ACTIVE",
        sections |->
          sortSections(mergeWithFixedSections(SectionsTwoDynamic))])
  /\ templateWrites = 1
  /\ properties = Upsert(Empty, "p1",
       createPropertyFn([propertyManagerId |-> Some("pm1"),
                         templateId |-> Some("t1")]).value)
  /\ accessRequests = Empty
  /\ propertyAccess = Empty
  /\ auditLog = <<AuditEntry("admin", "p1", "property_created", <<"p1">>)>>
  /\ now = 0
  /\ last = Call("createProperty", "p1", None, "ok")
  /\ calls = NoCalls

NextAccess ==
  \/ Tick
  \/ \E p \in PropertyIds :
       \/ \E dto \in CreatePropertyDtos : CreateProperty(p, dto, "admin")
       \/ \E dto \in AssignPropertyManagerDtos :
            AssignPropertyManager(p, dto, "admin")
       \/ \E u \in Requesters : RequestAccess(p, u)
       \/ \E u \in Requesters, reviewer \in Users,
             dto \in ReviewAccessRequestDtos :
            ReviewAccessRequest(<<p, u>>, reviewer, dto)
       \/ \E u \in {"viewer", "pm1"} : CheckDashboardAccess(p, u)
       \/ \E granter \in {"pm1", "viewer"}, dto \in ShareDashboardDtos :
            ShareDashboard(p, granter, dto)
       \/ \E u \in Requesters : RevokeAccess(p, u, "pm1")

SpecAccess == InitAccess /\ [][NextAccess]_vars

\* ---- the workflow on one property and one viewer, followed further ----
MaxWorkflowAudit == 4   \* audit-log rows after which the calls are cut off

Room == Len(auditLog) < MaxWorkflowAudit

NextWorkflow ==
  \/ Tick
  \/ RequestAccess("p1", "viewer")
  \/ \E reviewer \in {"pm1", "viewer"}, dto \in ReviewAccessRequestDtos :
       Room /\ ReviewAccessRequestStep(<<"p1", "viewer">>, reviewer, dto)
  \/ \E dto \in ReviewAccessRequestDtos, failAt \in 1..3 :
       /\ reviewOutcome(<<"p1", "viewer">>, "pm1", dto) = "approved"
       /\ ReviewAccessRequestTx(<<"p1", "viewer">>, "pm1", dto, failAt)
  \/ \E dto \in ShareDashboardDtos :
       Room /\ ShareDashboardStep("p1", "pm1", dto)
  \/ Room /\ RevokeAccessStep("p1", "viewer", "pm1")
  \/ CheckDashboardAccess("p1", "viewer")
  \/ GetDashboardAccessList("p1")

SpecWorkflow == InitAccess /\ [][NextWorkflow]_vars

(***************************************************************************)
(* Properties of the access workflow                                       *)
(***************************************************************************)
Roles == {"ADMIN", "PROPERTY_MANAGER", "AUTHORIZED_VIEWER", "OPERATIONAL"}

\* the requests that exist before and after a step, and those whose status
\* the step changed
KeptRequests == DOMAIN accessRequests \cap DOMAIN accessRequests'
StatusChange(id) == <<accessRequests[id].status, accessRequests'[id].status>>
Changed == {id \in KeptRequests : StatusChange(id)[1] # StatusChange(id)[2]}

\* every review of a request that is not PENDING is answered BadRequest
NonPendingRefused ==
  \A id \in DOMAIN accessRequests, reviewer \in Users,
     dto \in ReviewAccessRequestDtos :
    accessRequests[id].status # "PENDING" =>
      reviewOutcome(id, reviewer, dto) = "BadRequest"

\* a review answered BadRequest changes nothing
RefusedReviewChangesNothing ==
  (last'.op = "reviewAccessRequest" /\ last'.result = "BadRequest") =>
    UNCHANGED <<accVars, propVars>>

\* C2 as stated: a request's status changes only PENDING->APPROVED and
\* PENDING->DECLINED, by reviewAccessRequest, and DECLINED->PENDING, by
\* requestAccess; a review of a request that is not PENDING fails with
\* BadRequest and changes nothing.
C2_ListedTransitionsOnly ==
  /\ []NonPendingRefused
  /\ [][/\ RefusedReviewChangesNothing
        /\ \A id \in Changed :
             \/ /\ StatusChange(id) \in {<<"PENDING", "APPROVED">>,
                                         <<"PENDING", "DECLINED">>}
                /\ last'.op = "reviewAccessRequest"
             \/ /\ StatusChange(id) = <<"DECLINED", "PENDING">>
                /\ last'.op = "requestAccess"]_vars

\* C2 amended: besides the three listed transitions, requestAccess also
\* takes an APPROVED request back to PENDING, and does so only when the
\* requester's access row is revoked; request rows are created PENDING by
\* requestAccess and are never deleted; a review of a request that is not
\* PENDING fails with BadRequest and changes nothing.
C2_Transitions ==
  /\ []NonPendingRefused
  /\ [][/\ RefusedReviewChangesNothing
        /\ DOMAIN accessRequests \subseteq DOMAIN accessRequests'
        /\ \A id \in DOMAIN accessRequests' \ DOMAIN accessRequests :
             /\ accessRequests'[id].status = "PENDING"
             /\ last'.op = "requestAccess"
        /\ \A id \in Changed :
             \/ /\ StatusChange(id) \in {<<"PENDING", "APPROVED">>,
                                         <<"PENDING", "DECLINED">>}
                /\ last'.op = "reviewAccessRequest"
             \/ /\ StatusChange(id) = <<"DECLINED", "PENDING">>
                /\ last'.op = "requestAccess"
             \/ /\ StatusChange(id) = <<"APPROVED", "PENDING">>
                /\ last'.op = "requestAccess"
                /\ id \in DOMAIN propertyAccess
                /\ IsSome(propertyAccess[id].revokedAt)]_vars

LoggedActions(id) ==
  {auditLog[i].action : i \in {j \in DOMAIN auditLog :
                                 auditLog[j].entity_id = id}}

\* a request that was approved and never declined is PENDING again, its
\* access row revoked
C2_Witness ==
  \E id \in DOMAIN accessRequests :
    /\ accessRequests[id].status = "PENDING"
    /\ "access_request_approved" \in LoggedActions(id)
    /\ "access_request_declined" \notin LoggedActions(id)
    /\ IsSome(propertyAccess[id].revokedAt)
    /\ last.op = "requestAccess"
    /\ last.result = "ok"

\* the access decision as the specification words it
ReferenceAccess(propertyId, userId, role, t) ==
  LET privileged ==
        \/ role = "ADMIN"
        \/ \E p \in DOMAIN properties :
             p = propertyId /\ properties[p].propertyManagerId = <<userId>>
      rows == {id \in DOMAIN propertyAccess : id = <<propertyId, userId>>}
      r == propertyAccess[<<propertyId, userId>>]
  IN  CASE privileged -> "ok"
        [] ~privileged /\ rows = {} -> "NO_ACCESS"
        [] ~privileged /\ rows # {} /\ r.revokedAt # <<>> -> "REVOKED"
        [] ~privileged /\ rows # {} /\ r.revokedAt = <<>>
             /\ r.expiresAt # <<>> /\ r.expiresAt[1] < t -> "EXPIRED"
        [] OTHER -> "ok"

\* C3: checkDashboardAccess agrees with the reference decision for every
\* property id, user id, role and clock value, in every reachable state:
\* admins and the property's manager get access; otherwise NO_ACCESS without
\* a row, REVOKED for a revoked row (also when it is expired), EXPIRED for a
\* non-revoked row whose expiresAt lies before now, access otherwise.
C3_AccessDecision ==
  \A p \in PropertyIds \cup {"p0"}, u \in Users \cup {"nobody"},
     role \in Roles, t \in 0..MaxTime :
    checkDashboardAccessFn(p, u, role, t) = ReferenceAccess(p, u, role, t)

\* a call was answered REVOKED for a row that is revoked and expired
C3_Witness ==
  /\ last.op = "checkDashboardAccess"
  /\ last.result = "REVOKED"
  /\ LET id == <<last.args.propertyId, last.args.userId>> IN
     /\ id \in DOMAIN propertyAccess
     /\ IsSome(propertyAccess[id].revokedAt)
     /\ IsSome(propertyAccess[id].expiresAt)
     /\ propertyAccess[id].expiresAt[1] < now
     /\ checkDashboardAccessFn(id[1], id[2], UserRole(id[2]), now) = "REVOKED"

MayReview(reviewer, propertyId) ==
  \/ UserRole(reviewer) = "ADMIN"
  \/ properties[propertyId].propertyManagerId = Some(reviewer)

\* a PENDING request: an admin or the property's manager is never answered
\* Forbidden, every other reviewer always is
ReviewGuard ==
  \A id \in DOMAIN accessRequests, reviewer \in Users,
     dto \in ReviewAccessRequestDtos :
    accessRequests[id].status = "PENDING" =>
      (reviewOutcome(id, reviewer, dto) = "Forbidden"
         <=> ~MayReview(reviewer, id[1]))

\* C10: a review of a PENDING request succeeds only for an admin or the
\* manager of the request's property; for every other reviewer it fails
\* with Forbidden, and the request statuses, the PropertyAccess rows and
\* the audit log stay as they were.
C10_ReviewerGuard ==
  /\ []ReviewGuard
  /\ [][/\ (last'.op = "reviewAccessRequest" /\ last'.result = "Forbidden")
             => UNCHANGED accVars
        /\ \A id \in Changed :
             accessRequests[id].status = "PENDING" =>
               /\ IsSome(accessRequests'[id].reviewedBy)
               /\ MayReview(accessRequests'[id].reviewedBy[1], id[1])]_vars

\* the manager pm1 has declined a request, and a later review of a PENDING
\* request was answered Forbidden
C10_Witness ==
  /\ last.op = "reviewAccessRequest"
  /\ last.result = "Forbidden"
  /\ \E id \in DOMAIN accessRequests : accessRequests[id].status = "PENDING"
  /\ \E i \in DOMAIN auditLog :
       /\ auditLog[i].action = "access_request_declined"
       /\ auditLog[i].user_id = "pm1"

\* decline requests, by the reasons they carry
DeclineDtos(reasons) ==
  {[action |-> "DECLINED", declineReason |-> d, expiresAt |-> None] :
     d \in reasons}

HasActiveAccess(id) ==
  id \in DOMAIN propertyAccess /\ propertyAccess[id].revokedAt = None

PendingRow == [status |-> "PENDING", reviewedBy |-> None, reviewedAt |-> None]

\* C11: a decline of a PENDING request by an allowed reviewer that carries no
\* reason (none, or the empty string) fails with BadRequest, the request stays
\* PENDING and requests, access rows and audit log are as before; with a
\* reason the request becomes DECLINED with the reviewer recorded, and the
\* PropertyAccess rows are as before; a requestAccess that follows the
\* decline, by the same requester, sets that same row to PENDING with
\* reviewedBy and reviewedAt cleared, and adds no row.
C11_DeclineAndReRequest ==
  [][\A id \in DOMAIN accessRequests :
       /\ \A reviewer \in Users :
            (accessRequests[id].status = "PENDING" /\ MayReview(reviewer, id[1]))
            =>
            /\ \A dto \in DeclineDtos({None, Some("")}) :
                 /\ reviewOutcome(id, reviewer, dto) = "BadRequest"
                 /\ ReviewAccessRequestStep(id, reviewer, dto) =>
                      /\ last'.result = "BadRequest"
                      /\ accessRequests'[id].status = "PENDING"
                      /\ UNCHANGED accVars
            /\ \A dto \in DeclineDtos({Some("not a tenant")}) :
                 /\ reviewOutcome(id, reviewer, dto) = "declined"
                 /\ ReviewAccessRequestStep(id, reviewer, dto) =>
                      /\ last'.result = "ok"
                      /\ accessRequests' =
                           [accessRequests EXCEPT ![id] =
                              [status |-> "DECLINED",
                               reviewedBy |-> Some(reviewer),
                               reviewedAt |-> Some(now)]]
                      /\ UNCHANGED propertyAccess
       /\ (accessRequests[id].status = "DECLINED" /\ ~HasActiveAccess(id))
            =>
            /\ requestAccessFn(id[1], id[2]).result = "ok"
            /\ RequestAccess(id[1], id[2]) =>
                 /\ last'.result = "ok"
                 /\ accessRequests' = [accessRequests EXCEPT ![id] = PendingRow]
                 /\ DOMAIN accessRequests' = DOMAIN accessRequests]_vars

\* a request that was declined, with the decline logged, is PENDING again
\* with no reviewer recorded, by a requestAccess that succeeded
C11_Witness ==
  /\ last.op = "requestAccess"
  /\ last.result = "ok"
  /\ \E id \in DOMAIN accessRequests :
       /\ accessRequests[id] = PendingRow
       /\ "access_request_declined" \in LoggedActions(id)
       /\ "access_request_approved" \notin LoggedActions(id)

\* C12: no step removes a PropertyAccess row (the rows are keyed by the pair
\* (propertyId, userId), one row per pair); revokeAccess on a row that is not
\* revoked succeeds, sets revokedAt and revokedBy of that row, and leaves the
\* row's other fields, the other rows and the requests as they were;
\* revokeAccess on a missing or revoked row fails with NotFound and changes
\* neither rows, requests nor audit log.
C12_RowsKeptAndRevoke ==
  [][/\ DOMAIN propertyAccess \subseteq DOMAIN propertyAccess'
     /\ \A p \in PropertyIds, u \in Users, revoker \in Users :
          RevokeAccessStep(p, u, revoker) =>
            IF HasActiveAccess(<<p, u>>)
            THEN /\ last'.result = "ok"
                 /\ propertyAccess' =
                      [propertyAccess EXCEPT ![<<p, u>>] =
                         [grantedBy |-> propertyAccess[<<p, u>>].grantedBy,
                          expiresAt |-> propertyAccess[<<p, u>>].expiresAt,
                          revokedAt |-> Some(now),
                          revokedBy |-> Some(revoker)]]
                 /\ UNCHANGED accessRequests
            ELSE /\ last'.result = "NotFound"
                 /\ UNCHANGED accVars]_vars

\* a row granted with an expiry by an approval was revoked by pm1, and the
\* row keeps its grantor and expiry
C12_Witness ==
  /\ last.op = "revokeAccess"
  /\ last.result = "ok"
  /\ \E id \in DOMAIN propertyAccess :
       /\ propertyAccess[id].revokedBy = Some("pm1")
       /\ IsSome(propertyAccess[id].revokedAt)
       /\ IsSome(propertyAccess[id].expiresAt)
       /\ propertyAccess[id].grantedBy = "pm1"
       /\ "access_request_approved" \in LoggedActions(id)
       /\ "dashboard_shared" \notin LoggedActions(id)

\* the row of the pair is there and carries no revocation, and the access
\* decision for the pair's user is not REVOKED
NotRevoked(id) ==
  /\ id \in DOMAIN propertyAccess
  /\ propertyAccess[id].revokedAt = None
  /\ propertyAccess[id].revokedBy = None
  /\ checkDashboardAccessFn(id[1], id[2], UserRole(id[2]), now) # "REVOKED"

\* C13: after every successful shareDashboard for a user on a property, and
\* after every approval of a user's request for a property, the row of that
\* pair exists with revokedAt and revokedBy null, whatever the row was
\* before, and checkDashboardAccess for that user does not answer REVOKED.
C13_GrantClearsRevocation ==
  [][/\ \A p \in PropertyIds, granter \in Users, dto \in ShareDashboardDtos :
          (ShareDashboardStep(p, granter, dto) /\ last'.result = "ok") =>
            \A u \in FindUser(dto.emailOrUserId) : NotRevoked(<<p, u>>)'
     /\ \A id \in DOMAIN accessRequests, reviewer \in Users,
           dto \in ReviewAccessRequestDtos :
          (/\ ReviewAccessRequestStep(id, reviewer, dto)
           /\ reviewOutcome(id, reviewer, dto) = "approved") =>
            NotRevoked(id)']_vars

\* the viewer's row was revoked and then granted again by a share: the
\* revocation is in the audit log, the share is the log's last entry, and the
\* row carries no revocation
C13_Witness ==
  /\ last.op = "shareDashboard"
  /\ last.result = "ok"
  /\ NotRevoked(<<"p1", "viewer">>)
  /\ auditLog[Len(auditLog)].action = "dashboard_shared"
  /\ \E i \in DOMAIN auditLog :
       /\ auditLog[i].action = "access_revoked"
       /\ auditLog[i].entity_id = <<"p1", "viewer">>

\* every APPROVED request has its PropertyAccess row and its
\* 'access_request_approved' audit entry
ApprovedIsGranted ==
  \A id \in DOMAIN accessRequests :
    accessRequests[id].status = "APPROVED" =>
      /\ id \in DOMAIN propertyAccess
      /\ "access_request_approved" \in LoggedActions(id)

\* C14: in every reachable state, those reached through approvals in which a
\* write throws included, a request is APPROVED only if the PropertyAccess
\* row of (propertyId, requesterId) exists and an 'access_request_approved'
\* audit entry for the request was written; an approval in which a write
\* throws leaves the request PENDING and requests, access rows and audit log
\* as they were.
C14_ApprovalAllOrNothing ==
  /\ []ApprovedIsGranted
  /\ [][\A id \in DOMAIN accessRequests, reviewer \in Users,
           dto \in ReviewAccessRequestDtos, failAt \in 1..3 :
          (/\ reviewOutcome(id, reviewer, dto) = "approved"
           /\ ReviewAccessRequestTx(id, reviewer, dto, failAt)) =>
            /\ last'.result = "InternalError"
            /\ accessRequests'[id].status = "PENDING"
            /\ UNCHANGED accVars]_vars

\* an approval failed on a request that had been approved once before and
\* whose access row is revoked: the request is PENDING, the row still revoked
C14_Witness ==
  /\ last.op = "reviewAccessRequest"
  /\ last.result = "InternalError"
  /\ accessRequests[<<"p1", "viewer">>].status = "PENDING"
  /\ "access_request_approved" \in LoggedActions(<<"p1", "viewer">>)
  /\ IsSome(propertyAccess[<<"p1", "viewer">>].revokedAt)

\* the step appended one audit entry, for the property, or on failure none
LoggedFor(propertyId) ==
  IF last'.result = "ok"
  THEN /\ Len(auditLog') = Len(auditLog) + 1
       /\ SubSeq(auditLog', 1, Len(auditLog)) = auditLog
       /\ auditLog'[Len(auditLog')].property_id = propertyId
  ELSE auditLog' = auditLog

\* C19: every successful requestAccess, approval, decline, shareDashboard
\* and revokeAccess appends one audit-log entry for the property concerned,
\* and a call that fails appends none.
C19_EveryStepLogged ==
  [][\A p \in PropertyIds, u \in Users :
       /\ RequestAccess(p, u) => LoggedFor(p)
       /\ RevokeAccessStep(p, u, "pm1") => LoggedFor(p)
       /\ \A dto \in ShareDashboardDtos :
            ShareDashboardStep(p, "pm1", dto) => LoggedFor(p)
       /\ \A reviewer \in Users, dto \in ReviewAccessRequestDtos,
             failAt \in 0..3 :
            (/\ reviewOutcome(<<p, u>>, reviewer, dto) # "none"
             /\ ReviewAccessRequestTx(<<p, u>>, reviewer, dto, failAt))
            => LoggedFor(p)]_vars

\* C25: shareDashboard creates or re-grants a PropertyAccess row only when
\* the caller is the manager of that property or an admin; a call by any
\* other user leaves every PropertyAccess row as it was.
C25_ShareReservedToManagers ==
  [][\A p \in DOMAIN properties, granter \in Users, dto \in ShareDashboardDtos :
       (ShareDashboard(p, granter, dto) /\ ~MayReview(granter, p))
         => propertyAccess' = propertyAccess]_vars

LockedOut(p, u) ==
  checkDashboardAccessFn(p, u, UserRole(u), now)
    \in {"NO_ACCESS", "REVOKED", "EXPIRED"}

\* C29: in every state where checkDashboardAccess answers hasAccess=false
\* (NO_ACCESS, REVOKED or EXPIRED) for a user who is neither admin nor the
\* manager of an existing property, and that user has no PENDING request
\* for it, requestAccess by that user succeeds and stores a PENDING request.
C29_LockedOutCanRequest ==
  \A p \in DOMAIN properties, u \in Users :
    (/\ LockedOut(p, u)
     /\ ~(<<p, u>> \in DOMAIN accessRequests
          /\ accessRequests[<<p, u>>].status = "PENDING"))
    => /\ requestAccessFn(p, u).result = "ok"
       /\ requestAccessFn(p, u).value.status = "PENDING"

\* C30: at every time and in every reachable state, a user with a
\* PropertyAccess row for a property (neither admin nor its manager) is in
\* getDashboardAccessList of the property exactly when checkDashboardAccess
\* answers hasAccess=true for that user: the list leaves out exactly the
\* revoked and the expired rows, also when expiresAt equals the time of the
\* call.
C30_ListAgreesWithCheck ==
  \A id \in DOMAIN propertyAccess :
    (/\ id[1] \in DOMAIN properties
     /\ UserRole(id[2]) # "ADMIN"
     /\ properties[id[1]].propertyManagerId # Some(id[2]))
    => (id[2] \in getDashboardAccessListFn(id[1], now).value
          <=> checkDashboardAccessFn(id[1], id[2], UserRole(id[2]), now)
                = "ok")

(***************************************************************************)
(* Criteria, templates and properties together: the calls that create,     *)
(* rename, re-point, copy and delete the rows that refer to each other     *)
(***************************************************************************)
NextCatalog ==
  \/ \E c \in {"c1", "c2"} :
       \/ CreateCriteria(c, DtoStandard)
       \/ RemoveCriteria(c)
  \/ \E t \in TemplateIds :
       \/ \E n \in TemplateNames, c \in {"c1", "c2"} :
            CreateTemplate(t, [name |-> n, criteriaId |-> c, status |-> None,
                               sections |-> SectionsNone])
       \/ \E n \in {None} \cup {Some(x) : x \in TemplateNames},
             c \in {None, Some("c1"), Some("c2")} :
            UpdateTemplate(t, [name |-> n, criteriaId |-> c, status |-> None,
                               sections |-> None])
       \/ \E newId \in TemplateIds, n \in TemplateNames :
            DuplicateTemplate(t, newId, n)
       \/ ArchiveTemplate(t)
       \/ RemoveTemplate(t)
  \/ \E p \in PropertyIds, t \in {None, Some("t1"), Some("t2")} :
       CreateProperty(p, [propertyManagerId |-> None, templateId |-> t],
                      "admin")

SpecCatalog == Init /\ [][NextCatalog]_vars

\* every template points at a stored criteria, every property that names a
\* template at a stored template
ReferencesResolve ==
  /\ \A t \in DOMAIN templates : templates[t].criteriaId \in DOMAIN criteria
  /\ \A p \in DOMAIN properties :
       IsSome(properties[p].activeTemplateId) =>
         properties[p].activeTemplateId[1] \in DOMAIN templates

\* C16: in every state reached by creating, re-pointing, copying, archiving
\* and deleting criteria, templates and properties, every template's
\* criteriaId names a stored criteria and every property's non-null
\* activeTemplateId names a stored template; removing a criteria that a
\* template references, or a template that a property references, is
\* rejected and deletes nothing.
C16_ReferentialIntegrity ==
  /\ []ReferencesResolve
  /\ [][/\ \A c \in DOMAIN criteria :
            (/\ \E t \in DOMAIN templates : templates[t].criteriaId = c
             /\ RemoveCriteria(c))
            => last'.result = "BadRequest" /\ criteria' = criteria
        /\ \A t \in DOMAIN templates :
            (/\ \E p \in DOMAIN properties :
                  properties[p].activeTemplateId = Some(t)
             /\ RemoveTemplate(t))
            => last'.result = "Conflict" /\ templates' = templates]_vars

\* the delete of a template that a property is on was refused
C16_Witness ==
  /\ last.op = "removeTemplate"
  /\ last.result = "Conflict"
  /\ \E p \in DOMAIN properties, t \in DOMAIN templates :
       /\ properties[p].activeTemplateId = Some(t)
       /\ templates[t].criteriaId \in DOMAIN criteria

(***************************************************************************)
(* Two calls in flight at once: addScoringCategory on one criteria,        *)
(* addTextField on one template.  Each call awaits its read, computes, and *)
(* awaits its write of the whole array; the other call may run in between. *)
(***************************************************************************)
\* the array a call reads and rewrites
Stored(op, id) ==
  IF op = "addScoringCategory" THEN criteria[id].scoringCategories
  ELSE templates[id].sections

\* what the call computes from the array it has read
Computed(call, t) ==
  IF call.op = "addScoringCategory"
  THEN addScoringCategoryFn(call.snapshot, call.dto, t)
  ELSE addTextFieldFn(call.snapshot, call.dto)

\* first half: _assertCriteriaExists / findOne returns the row
Begin(c, op, id, dto) ==
  /\ calls[c].pc = "idle"
  /\ id \in (IF op = "addScoringCategory" THEN DOMAIN criteria
              ELSE DOMAIN templates)
  /\ calls' = [calls EXCEPT ![c] =
                 [pc |-> "read", op |-> op, id |-> id, dto |-> dto,
                  snapshot |-> Stored(op, id)]]
  /\ UNCHANGED <<critVars, tmplVars, propVars, accVars, now, last>>

\* a second half that computes from the array as it is stored now
End_OnStored(c) ==
  LET call == [calls[c] EXCEPT !.snapshot = Stored(calls[c].op, calls[c].id)]
      r == Computed(call, now) IN
  /\ calls[c].pc = "read"
  /\ IF call.op = "addScoringCategory"
     THEN /\ criteria' = IF r.result = "ok"
                          THEN [criteria EXCEPT
                                  ![call.id].scoringCategories = r.value]
                          ELSE criteria
          /\ UNCHANGED tmplVars
     ELSE /\ templates' = [templates EXCEPT ![call.id].sections = r.value]
          /\ Written(r.result)
          /\ UNCHANGED critVars
  /\ calls' = [calls EXCEPT ![c] =
                 [call EXCEPT !.pc = "done", !.snapshot = calls[c].snapshot]
                   @@ [result |-> r.result, written |-> r.value]]
  /\ last' = Call(call.op, call.id, call.dto, r.result)
  /\ UNCHANGED <<propVars, accVars, now>>

\* second half: the checks and the new entry are computed from the array
\* read in the first half, and update({ where: { id }, data }) stores the
\* whole array
End(c) ==
  LET call == calls[c]
      r == Computed(call, now) IN
  /\ call.pc = "read"
  /\ IF call.op = "addScoringCategory"
     THEN /\ criteria' = IF r.result = "ok"
                          THEN [criteria EXCEPT
                                  ![call.id].scoringCategories = r.value]
                          ELSE criteria
          /\ UNCHANGED tmplVars
     ELSE /\ templates' = [templates EXCEPT ![call.id].sections = r.value]
          /\ Written(r.result)
          /\ UNCHANGED critVars
  /\ calls' = [calls EXCEPT ![c] =
                 [call EXCEPT !.pc = "done"]
                   @@ [result |-> r.result, written |-> r.value]]
  /\ last' = Call(call.op, call.id, call.dto, r.result)
  /\ UNCHANGED <<propVars, accVars, now>>

NextConcurrent ==
  \/ Tick
  \/ \E c \in CallIds :
       \/ \E dto \in {[label |-> "Drainage", maxPoints |-> 4],
                       [label |-> "Coating", maxPoints |-> 6],
                       [label |-> "Custom", maxPoints |-> 30]} :
            Begin(c, "addScoringCategory", "c1", dto)
       \/ \E dto \in AddTextFieldDtos
                       \cup {[label |-> "Summary", placeholder |-> None,
                               style |-> None]} :
            Begin(c, "addTextField", "t1", dto)
       \/ End(c)

SpecConcurrent == InitAccess /\ [][NextConcurrent]_vars

\* both calls are done, both answered success, on the same array
BothSucceeded(a, b) ==
  /\ calls[a].pc = "done" /\ calls[b].pc = "done"
  /\ calls[a].result = "ok" /\ calls[b].result = "ok"
  /\ calls[a].op = calls[b].op
  /\ calls[a].id = calls[b].id

\* C18: a call writes the whole array computed from what it read, whatever
\* is stored by then; so whenever two calls on the same criteria (two
\* addScoringCategory) or on the same template (two addTextField) have both
\* read the array before either wrote it and both return success, the array
\* stored in the end is the one written by one of them: it is one entry
\* longer than the array they read, not two, and the other call's entry is
\* not in it.
C18_LostUpdate ==
  /\ [][\A c \in CallIds :
          (calls[c].pc = "read" /\ calls'[c].pc = "done"
           /\ calls'[c].result = "ok") =>
            /\ Stored(calls[c].op, calls[c].id)' = calls'[c].written
            /\ calls'[c].written = Computed(calls[c], now).value]_vars
  /\ [](\A a \in CallIds : \A b \in CallIds \ {a} :
          (BothSucceeded(a, b) /\ calls[a].snapshot = calls[b].snapshot) =>
            LET stored == Stored(calls[a].op, calls[a].id) IN
            /\ stored \in {calls[a].written, calls[b].written}
            /\ Len(stored) = Len(calls[a].snapshot) + 1)

\* two addScoringCategory calls with different labels on criteria c1 both
\* returned success; the stored array holds the category of one and not of
\* the other
C18_Witness ==
  \E a \in CallIds : \E b \in CallIds \ {a} :
    /\ BothSucceeded(a, b)
    /\ calls[a].op = "addScoringCategory"
    /\ calls[a].dto.label # calls[b].dto.label
    /\ criteria["c1"].scoringCategories = calls[a].written
    /\ ~\E i \in DOMAIN criteria["c1"].scoringCategories :
          criteria["c1"].scoringCategories[i].label = calls[b].dto.label

(***************************************************************************)
(* Two reviewAccessRequest calls in flight at once on one request.  The    *)
(* handler reads the request and runs its checks first (findUnique, the    *)
(* status test, _assertCanReview), and writes afterwards: an approval in   *)
(* one transaction, a decline as an update of the request followed by the  *)
(* audit row.  Another call may run between any two of these awaits.       *)
(***************************************************************************)
\* first part: the request is read and the checks run on what was read
ReviewAccessRequestRead(c, requestId, reviewerId, dto) ==
  LET outcome == reviewOutcome(requestId, reviewerId, dto)
      call == [pc |-> "checked", op |-> "reviewAccessRequest",
               id |-> requestId, reviewerId |-> reviewerId, dto |-> dto,
               outcome |-> outcome] IN
  /\ calls[c].pc = "idle"
  /\ IF outcome \in {"approved", "declined"}
     THEN /\ calls' = [calls EXCEPT ![c] = call]
          /\ UNCHANGED last
     ELSE /\ calls' = [calls EXCEPT ![c] = [call EXCEPT !.pc = "done"]]
          /\ last' = Call("reviewAccessRequest", requestId, dto,
                          IF outcome = "none" THEN "ok" ELSE outcome)
  /\ UNCHANGED <<critVars, tmplVars, propVars, accVars, now>>

\* second part: the approval transaction, or the update of the request
\* that declines it; neither looks at the stored status again
ReviewAccessRequestWrite(c) ==
  LET call == calls[c]
      db == transaction(ApprovalSteps(Db, call.id, call.reviewerId, call.dto,
                                      now), 0) IN
  /\ call.pc = "checked"
  /\ IF call.outcome = "approved"
     THEN /\ accessRequests' = db.accessRequests
          /\ propertyAccess' = db.propertyAccess
          /\ auditLog' = db.auditLog
          /\ calls' = [calls EXCEPT ![c].pc = "done"]
          /\ last' = Call("reviewAccessRequest", call.id, call.dto, "ok")
     ELSE /\ accessRequests' = [accessRequests EXCEPT ![call.id] =
                                  [status |-> "DECLINED",
                                   reviewedBy |-> Some(call.reviewerId),
                                   reviewedAt |-> Some(now)]]
          /\ calls' = [calls EXCEPT ![c].pc = "logging"]
          /\ UNCHANGED <<propertyAccess, auditLog, last>>
  /\ UNCHANGED <<critVars, tmplVars, propVars, now>>

\* last part of a decline: the audit row
ReviewAccessRequestLog(c) ==
  LET call == calls[c] IN
  /\ call.pc = "logging"
  /\ auditLog' = Append(auditLog,
       AuditEntry(call.reviewerId, call.id[1], "access_request_declined",
                  call.id))
  /\ calls' = [calls EXCEPT ![c].pc = "done"]
  /\ last' = Call("reviewAccessRequest", call.id, call.dto, "ok")
  /\ UNCHANGED <<critVars, tmplVars, propVars, accessRequests, propertyAccess,
                 now>>

\* one PENDING cycle of the viewer's request for p1 and the reviews of it
NextReviews ==
  \/ Tick
  \/ /\ <<"p1", "viewer">> \notin DOMAIN accessRequests
     /\ RequestAccess("p1", "viewer")
  \/ \E c \in CallIds :
       \/ \E reviewer \in {"pm1", "viewer"}, dto \in ReviewAccessRequestDtos :
            ReviewAccessRequestRead(c, <<"p1", "viewer">>, reviewer, dto)
       \/ ReviewAccessRequestWrite(c)
       \/ ReviewAccessRequestLog(c)

SpecReviews == InitAccess /\ [][NextReviews]_vars

\* the call has written: its approval is committed, or its decline is stored
TookEffect(c) ==
  /\ calls[c].pc \in {"logging", "done"}
  /\ calls[c].outcome \in {"approved", "declined"}

\* C27: of two reviewAccessRequest calls that run concurrently on one
\* PENDING request at most one takes effect: the request is never both
\* approved and declined within the cycle, and no state has the request
\* DECLINED while the PropertyAccess row of its property and requester is
\* the one granted by an approval of that request.
C27_OneReviewTakesEffect ==
  /\ \A c \in CallIds : \A d \in CallIds \ {c} :
       ~(TookEffect(c) /\ TookEffect(d))
  /\ \A c \in CallIds :
       (TookEffect(c) /\ calls[c].outcome = "approved") =>
         ~(/\ accessRequests[calls[c].id].status = "DECLINED"
           /\ calls[c].id \in DOMAIN propertyAccess
           /\ propertyAccess[calls[c].id]
                = GrantedRow(calls[c].reviewerId, calls[c].dto.expiresAt))

====
